---------------------------- MODULE Spec2Model ----------------------------
(***************************************************************************)
(* Verification model of MetamorphicGuard's dispatch, sandbox and          *)
(* evaluation layers.                                                      *)
(*                                                                         *)
(* Time is a discrete clock `now`.  The statements of the queue dispatch   *)
(* loop take no model time: the clock advances only while the loop is      *)
(* blocked in consume_result with no message available, which is the       *)
(* loop's only blocking call.  Tasks travel through the queue adapter as   *)
(* messages (a worker acts on the task as it was when it consumed it).     *)
(***************************************************************************)
EXTENDS Integers, Sequences, FiniteSets, TLC

(***************************************************************************)
(* Bounds of the model.                                                    *)
(***************************************************************************)
NumCases == 2          \* len(test_inputs) of one dispatch call
GlobalTimeout == 3     \* global_timeout, in clock ticks
LeaseSeconds == 2      \* lease_seconds, in clock ticks
HeartbeatTimeout == 1  \* heartbeat_timeout, in clock ticks
PollTimeout == 1       \* result_poll_timeout, in clock ticks

Workers == {"w1", "w2"}
NoWorker == "none"
None == 0 - 1          \* Python's None; for a configuration key: not given
Cases == 0 .. (NumCases - 1)

VARIABLES
    \* ---- QueueDispatcher.execute locals
    config,                 \* self.config as read at the top of execute
    now,                    \* time.monotonic()
    dispPc,                 \* position of execute: idle/loop/poll/returned/raised
    tasks,                  \* tasks: task_id -> QueueTask
    deadlines,              \* deadlines: task_id -> lease deadline
    remaining_cases,        \* remaining_cases: task_id -> set of case indices
    outstanding_cases,
    next_index,
    current_batch_size,
    target_inflight_cases,
    avg_case_ms,            \* NoAvg until the first timed result
    cases_since_adjustment,
    results,                \* results[idx], {} until a message for idx arrives
    received,
    pollEnd,                \* when the running consume_result call times out
    \* ---- queue adapter
    pending,                \* published tasks not yet consumed
    assignment,             \* task_id -> worker that consumed it
    heartbeats,             \* worker -> time of last register_worker
    lostWorkers,            \* workers the heartbeat manager marked lost
    resultQueue,            \* published results not yet consumed
    \* ---- workers
    wst,                    \* worker -> [st, task_id, items]
    \* ---- history of the run (not program state)
    requeueLog,             \* task_id -> requeues so far, with their cause
    published,              \* every result ever published: task, case, worker
    monitorRecords,         \* idx -> monitor.record calls execute made for it
    \* ---- LocalDispatcher.execute, alone or under a ShadowDispatcher
    ldConfig,               \* workers, use_process_pool, the shadow wrapper
    ldFaulty,               \* case indices on which the caller's run_case raises
    ldPc,                   \* start/serial/pool/fallback/unwinding/returned/raised
    ldResults,              \* results[idx], None until stored
    ldFutures,              \* idx -> the future submitted for it
    ldIdx,                  \* the loop variable idx
    ldRecords,              \* idx -> number of monitor.record calls for it
    ldFellBack,             \* history: the except clause of line 125 ran
    \* ---- _run_local_sandbox
    sbArgs,                 \* timeout_s and what the child will do
    sbPc,                   \* start/communicate/kill/wait/returned/raised
    sbClock,                \* wall clock of the call
    sbDeadline,             \* when communicate(timeout=timeout_s) gives up
    child,                  \* the child process
    sbResult,               \* the envelope returned
    \* ---- _evaluate_results
    evInput,                \* results, test_inputs and violation_cap passed in
    evPc,                   \* case/relation/case_end/returned
    evIdx,                  \* idx of the outer loop
    evRel,                  \* relation_index of the inner loop
    mr_passed,
    passes,
    pass_indicators,
    prop_violations,
    mr_violations,
    rerun_cache,
    relation_stats,
    evHistory,              \* history: transforms, reruns, first failure per case
    \* ---- run_eval from the gate call to the return
    gtInput,                \* what the gate does, violations, environment
    gtPc,                   \* gate/statistics/artifacts/return/returned/raised
    gtResult,               \* the report under construction
    gtArtifact,             \* whether write_failed_artifacts was called
    \* ---- run_eval called twice with one configuration
    rnConfig,               \* dispatcher, parallel, shadow sample rate
    rnImpl,                 \* the implementation under test: input -> result
    rnRun,                  \* which of the two calls is running (1 or 2)
    rnPc,                   \* start/executing/evaluate/done
    rnInputs,               \* inputs_to_use of the running execute
    rnResults,              \* the results array of the running execute
    rnSeen,                 \* positions the loop of execute has seen
    rnLast,                 \* position the loop saw last
    rnMetrics,              \* call -> what the call produced
    \* ---- one call of should_continue_adaptive
    adArgs,                 \* metrics, current_n, config and what estimate_power yields
    adPc,                   \* call/returned
    adDecision,             \* the AdaptiveDecision returned
    \* ---- execute_adaptively
    exArgs,                 \* adaptive_config and the number of inputs first planned
    exPc,                   \* start/chunk/check/finish/returned
    exPlanned,              \* len(test_inputs)
    processed,              \* len(baseline_results) = len(candidate_results)
    next_check,
    final_n,
    early_stop,
    exDecisions,            \* adaptive_metadata["decisions"]
    exGenerated,            \* history: the sizes asked of spec.gen_inputs
    \* ---- one execute call of an LLM executor
    rtArgs,                 \* max_retries, whether the arguments validate, the retry test
    rtPc,                   \* start/loop/backoff/returned
    attempt,                \* the loop variable
    rtOutcomes,             \* history: what each provider API call ended with
    rtResult,               \* the envelope returned
    \* ---- holm_correction and benjamini_hochberg_correction on one input
    mcArgs,                 \* p_values and alpha
    mcHolm,                 \* what holm_correction returned, <<>> before the call
    mcBH,                   \* what benjamini_hochberg_correction returned
    mcDone,                 \* the corrections applied so far
    \* ---- the lease check on one task whose workers go stale
    rqConfig,               \* the queue configuration
    rqNow,                  \* the clock
    rqLocals,               \* the locals of execute that the check changes
    rqHeartbeats,           \* worker -> its last heartbeat
    rqLost,                 \* the workers marked lost
    rqTaken,                \* copies of the task handed to workers
    \* ---- the batch size of one dispatch under its configuration
    bsConfig,               \* the queue configuration
    bsPc,                   \* "start" until the first chunk is published
    bsAdapt,                \* batch size, target, moving average, window count
    bsSteps,                \* adjustments and requeues so far
    \* ---- SuccessRateMonitor.record called from several threads
    mnLock,                 \* self._lock: the thread holding it, or NoThread
    mnCounts,               \* self._counts: role -> success and total
    mnThread,               \* thread -> its position in record and its locals
    mnCalls,                \* role -> the record calls made and those with success
    mnOverlap,              \* a call began while another was in progress
    \* ---- write_failed_artifacts on one directory
    faArgs,                 \* limit and ttl_days, the same at every call
    faClock,                \* the clock, in ticks of the file system's timestamps
    faDir,                  \* the *.json files of the directory
    faDeleted,              \* write numbers of the files that pruning removed
    faCalls                 \* calls made so far

queueVars == <<config, now, dispPc, tasks, deadlines, remaining_cases,
               outstanding_cases, next_index, current_batch_size,
               target_inflight_cases, avg_case_ms, cases_since_adjustment,
               results, received, pollEnd, pending,
               assignment, heartbeats, lostWorkers, resultQueue, wst,
               requeueLog, published, monitorRecords>>

dispatchVars == <<ldConfig, ldFaulty, ldPc, ldResults, ldFutures, ldIdx,
                  ldRecords, ldFellBack>>

sandboxVars == <<sbArgs, sbPc, sbClock, sbDeadline, child, sbResult>>

evalVars == <<evInput, evPc, evIdx, evRel, mr_passed, passes, pass_indicators,
              prop_violations, mr_violations, rerun_cache, relation_stats,
              evHistory>>

gateVars == <<gtInput, gtPc, gtResult, gtArtifact>>

runsVars == <<rnConfig, rnImpl, rnRun, rnPc, rnInputs, rnResults, rnSeen,
              rnLast, rnMetrics>>

decisionVars == <<adArgs, adPc, adDecision>>

adaptiveVars == <<exArgs, exPc, exPlanned, processed, next_check, final_n,
                  early_stop, exDecisions, exGenerated>>

retryVars == <<rtArgs, rtPc, attempt, rtOutcomes, rtResult>>

correctionVars == <<mcArgs, mcHolm, mcBH, mcDone>>

requeueVars == <<rqConfig, rqNow, rqLocals, rqHeartbeats, rqLost, rqTaken>>

batchVars == <<bsConfig, bsPc, bsAdapt, bsSteps>>

monitorVars == <<mnLock, mnCounts, mnThread, mnCalls, mnOverlap>>

artifactVars == <<faArgs, faClock, faDir, faDeleted, faCalls>>

vars == <<queueVars, dispatchVars, sandboxVars, evalVars, gateVars,
          runsVars, decisionVars, adaptiveVars, retryVars, correctionVars,
          requeueVars, batchVars, monitorVars, artifactVars>>

otherThanQueue == <<dispatchVars, sandboxVars, evalVars, gateVars,
                    runsVars, decisionVars, adaptiveVars, retryVars,
                    correctionVars, requeueVars, batchVars, monitorVars,
                    artifactVars>>
otherThanDispatch == <<queueVars, sandboxVars, evalVars, gateVars,
                       runsVars, decisionVars, adaptiveVars, retryVars,
                       correctionVars, requeueVars, batchVars, monitorVars,
                       artifactVars>>
otherThanSandbox == <<queueVars, dispatchVars, evalVars, gateVars,
                      runsVars, decisionVars, adaptiveVars, retryVars,
                      correctionVars, requeueVars, batchVars, monitorVars,
                      artifactVars>>
otherThanEval == <<queueVars, dispatchVars, sandboxVars, gateVars,
                   runsVars, decisionVars, adaptiveVars, retryVars,
                   correctionVars, requeueVars, batchVars, monitorVars,
                   artifactVars>>
otherThanGate == <<queueVars, dispatchVars, sandboxVars, evalVars,
                   runsVars, decisionVars, adaptiveVars, retryVars,
                   correctionVars, requeueVars, batchVars, monitorVars,
                   artifactVars>>
otherThanRuns == <<queueVars, dispatchVars, sandboxVars, evalVars,
                   gateVars, decisionVars, adaptiveVars, retryVars,
                   correctionVars, requeueVars, batchVars, monitorVars,
                   artifactVars>>
otherThanDecision == <<queueVars, dispatchVars, sandboxVars, evalVars,
                       gateVars, runsVars, adaptiveVars, retryVars,
                       correctionVars, requeueVars, batchVars, monitorVars,
                       artifactVars>>
otherThanAdaptive == <<queueVars, dispatchVars, sandboxVars, evalVars,
                       gateVars, runsVars, decisionVars, retryVars,
                       correctionVars, requeueVars, batchVars, monitorVars,
                       artifactVars>>
otherThanRetry == <<queueVars, dispatchVars, sandboxVars, evalVars,
                    gateVars, runsVars, decisionVars, adaptiveVars,
                    correctionVars, requeueVars, batchVars, monitorVars,
                    artifactVars>>
otherThanCorrection == <<queueVars, dispatchVars, sandboxVars, evalVars,
                         gateVars, runsVars, decisionVars, adaptiveVars,
                         retryVars, requeueVars, batchVars, monitorVars,
                         artifactVars>>
otherThanRequeue == <<queueVars, dispatchVars, sandboxVars, evalVars,
                      gateVars, runsVars, decisionVars, adaptiveVars,
                      retryVars, correctionVars, batchVars, monitorVars,
                      artifactVars>>
otherThanBatch == <<queueVars, dispatchVars, sandboxVars, evalVars,
                    gateVars, runsVars, decisionVars, adaptiveVars,
                    retryVars, correctionVars, requeueVars, monitorVars,
                    artifactVars>>
otherThanMonitor == <<queueVars, dispatchVars, sandboxVars, evalVars,
                      gateVars, runsVars, decisionVars, adaptiveVars,
                      retryVars, correctionVars, requeueVars, batchVars,
                      artifactVars>>
otherThanArtifact == <<queueVars, dispatchVars, sandboxVars, evalVars,
                       gateVars, runsVars, decisionVars, adaptiveVars,
                       retryVars, correctionVars, requeueVars, batchVars,
                       monitorVars>>

Max(a, b) == IF a >= b THEN a ELSE b
Min(a, b) == IF a <= b THEN a ELSE b

Put(f, k, v) == [x \in (DOMAIN f) \cup {k} |-> IF x = k THEN v ELSE f[x]]
Drop(f, k) == [x \in (DOMAIN f) \ {k} |-> f[x]]
EmptyMap == [x \in {} |-> 0]

RECURSIVE SortedSeq(_)
SortedSeq(S) ==
    IF S = {} THEN <<>>
    ELSE LET m == CHOOSE x \in S : \A y \in S : x <= y
         IN <<m>> \o SortedSeq(S \ {m})

RangeSeq(lo, hi) == [k \in 1 .. Max(0, hi - lo) |-> lo + k - 1]

(***************************************************************************)
(* Inputs and the caller's run_case.  test_inputs[i] is the one-element    *)
(* tuple (10 + i,); run_case returns the argument it was given as its      *)
(* result, so a result names the input it was computed from.               *)
(***************************************************************************)
InputVal(i) == 10 + i
test_inputs == [i \in Cases |-> [val |-> InputVal(i), kind |-> "tuple"]]

DurationOf(v) == IF v = InputVal(0) THEN 10 ELSE 1000

RunCase(idx, args) ==
    [filled |-> TRUE, success |-> TRUE, result |-> args.val,
     duration_ms |-> DurationOf(args.val), shadow_suppressed |-> FALSE]

EmptyResult == [filled |-> FALSE, success |-> FALSE, result |-> 0 - 1,
                duration_ms |-> 0, shadow_suppressed |-> FALSE]

(***************************************************************************)
(* queue_serialization: a payload is the encoded argument list, in one of  *)
(* two formats, deflated or not.  Decoding turns every tuple into a list.  *)
(***************************************************************************)
RawLen(args_list) == 2 + 4 * Len(args_list)
CompressedLen(raw_len) == 4 + (raw_len \div 2)

prepare_payload(args_list, compress_default, adaptive, threshold_bytes, use_msgpack, msgpack_available) ==
    LET fmt == IF use_msgpack /\ msgpack_available THEN "msgpack" ELSE "json"
        raw_len == RawLen(args_list)
        compressed_len == CompressedLen(raw_len)
        use_compression ==
            IF ~compress_default THEN FALSE
            ELSE ~(adaptive /\ (raw_len <= threshold_bytes
                                \/ compressed_len >= raw_len))
    IN [payload |-> [fmt |-> fmt, deflated |-> use_compression,
                     args |-> args_list],
        compressed |-> use_compression]

DecodeError == [ok |-> FALSE, args |-> <<>>]

decode_args(payload, compress, use_msgpack, msgpack_available) ==
    LET still_deflated == IF compress THEN FALSE ELSE payload.deflated
        parser == IF use_msgpack /\ msgpack_available THEN "msgpack" ELSE "json"
    IN IF still_deflated \/ parser # payload.fmt
       THEN DecodeError
       ELSE [ok |-> TRUE,
             args |-> [k \in 1 .. Len(payload.args) |->
                          [val |-> payload.args[k].val, kind |-> "list"]]]

Zip(indices, args_list) ==
    [k \in 1 .. Min(Len(indices), Len(args_list)) |->
        [idx |-> indices[k], args |-> args_list[k]]]


(***************************************************************************)
(* QueueDispatcher.execute: configuration.                                 *)
(***************************************************************************)
NumWorkers == Cardinality(Workers)          \* self.workers
MinPollWait == 1                            \* the floor of the poll timeout
AdjustmentWindow == 2
FastThresholdMs == 50
SlowThresholdMs == 500
CompressionThreshold == 6
InflightFactor == 2
MinBatchSize == 1

QueueConfigs ==
    [enable_requeue : BOOLEAN, batch_size : {1, 2},
     adaptive_batching : BOOLEAN, use_msgpack : BOOLEAN,
     compress : {TRUE}, adaptive_compress : {TRUE},
     msgpack_available : {TRUE},
     max_batch_size : {None}, initial_batch_size : {None},
     min_batch_size : {None}]

\* self.config.get(key, default) on the value v of the key.
config_get(v, default) == IF v = None THEN default ELSE v

\* Line 107.
configured_batch_size(c) == Max(1, c.batch_size)

\* Lines 115 and 125-127.
max_batch_size(c) ==
    IF ~c.adaptive_batching THEN configured_batch_size(c)
    ELSE Max(1, config_get(c.max_batch_size,
                           Max(configured_batch_size(c) * 4,
                               NumWorkers * configured_batch_size(c))))

\* Lines 116 and 125-126.
initial_batch_size(c) ==
    IF ~c.adaptive_batching THEN configured_batch_size(c)
    ELSE Max(1, config_get(c.initial_batch_size, configured_batch_size(c)))

\* Line 117.
min_batch_size(c) == Max(1, config_get(c.min_batch_size, MinBatchSize))

TargetInflight(batch) == Max(batch * NumWorkers * InflightFactor, batch)

overall_deadline == GlobalTimeout   \* execute starts at now = 0

(***************************************************************************)
(* _publish_chunk and _maybe_publish_batches, on the record d of the       *)
(* locals they touch: tasks, deadlines, remaining, outstanding,            *)
(* next_index, pending.                                                    *)
(***************************************************************************)
NewTask(c, task_id, indices, use_msgpack_arg) ==
    LET args_chunk == [k \in 1 .. Len(indices) |-> test_inputs[indices[k]]]
        pp == prepare_payload(args_chunk, c.compress, c.adaptive_compress,
                              CompressionThreshold, use_msgpack_arg,
                              c.msgpack_available)
    IN [task_id |-> task_id, case_indices |-> indices,
        payload |-> pp.payload, compressed |-> pp.compressed,
        use_msgpack |-> c.use_msgpack]

publish_chunk(c, t, d, start_idx, size) ==
    LET chunk_end == Min(NumCases, start_idx + size)
        indices == RangeSeq(start_idx, chunk_end)
        task_id == start_idx
        task == NewTask(c, task_id, indices, c.use_msgpack)
    IN IF indices = <<>> THEN d
       ELSE [d EXCEPT
               !.tasks = Put(d.tasks, task_id, task),
               !.deadlines = Put(d.deadlines, task_id, t + LeaseSeconds),
               !.remaining = Put(d.remaining, task_id,
                                 {indices[k] : k \in 1 .. Len(indices)}),
               !.outstanding = d.outstanding + Len(indices),
               !.pending = Append(d.pending, task)]

RECURSIVE maybe_publish_batches(_, _, _, _, _)
maybe_publish_batches(c, t, d, batch_size, target) ==
    LET inflight_limit == IF ~c.adaptive_batching THEN NumCases ELSE target
    IN IF d.next_index < NumCases /\ d.outstanding < inflight_limit
       THEN LET batch == Min(batch_size, NumCases - d.next_index)
                d1 == publish_chunk(c, t, d, d.next_index, batch)
            IN maybe_publish_batches(
                   c, t, [d1 EXCEPT !.next_index = d.next_index + batch],
                   batch_size, target)
       ELSE d

Locals ==
    [tasks |-> tasks, deadlines |-> deadlines, remaining |-> remaining_cases,
     outstanding |-> outstanding_cases, next_index |-> next_index,
     pending |-> pending]

SetLocals(d) ==
    /\ tasks' = d.tasks
    /\ deadlines' = d.deadlines
    /\ remaining_cases' = d.remaining
    /\ outstanding_cases' = d.outstanding
    /\ next_index' = d.next_index
    /\ pending' = d.pending


(***************************************************************************)
(* The lease check of the dispatch loop (enable_requeue only).             *)
(***************************************************************************)
NoBeat == 0 - 1

Assigned(asg, task_id) == IF task_id \in DOMAIN asg THEN asg[task_id] ELSE NoWorker

\* Line 233 without its heartbeat-age disjunct.
requeue_causes_NoHeartbeatAge(t, deadline, assigned, hb, lost) ==
    LET is_lost == assigned # NoWorker /\ assigned \in lost
    IN (IF t > deadline THEN {"lease"} ELSE {})
       \cup (IF is_lost THEN {"lost"} ELSE {})

\* The test of line 233 for one task, given what the adapter reported:
\* the causes for which the task is requeued (none: it is left alone).
requeue_causes(t, deadline, assigned, hb, lost) ==
    LET is_lost == assigned # NoWorker /\ assigned \in lost
        heartbeat_known ==
            assigned # NoWorker /\ ~is_lost /\ hb[assigned] # NoBeat
        heartbeat_age == IF heartbeat_known THEN t - hb[assigned] ELSE 0
    IN (IF t > deadline THEN {"lease"} ELSE {})
       \cup (IF is_lost THEN {"lost"} ELSE {})
       \cup (IF heartbeat_known /\ heartbeat_age > HeartbeatTimeout
             THEN {"heartbeat"} ELSE {})

\* Lines 249-250: the batch size after a requeue.
shrunk_batch(c, batch) ==
    IF c.adaptive_batching /\ batch > min_batch_size(c)
    THEN Max(min_batch_size(c), batch - 1) ELSE batch

\* Lines 234-254 for one task; q carries the locals the sweep changes.
requeue_task(c, t, q, task_id, causes) ==
    LET outstanding == q.remaining[task_id]
        sorted_indices == SortedSeq(outstanding)
        fresh == NewTask(c, task_id, sorted_indices, FALSE)
        task == [q.tasks[task_id] EXCEPT
                    !.case_indices = sorted_indices,
                    !.payload = fresh.payload,
                    !.compressed = fresh.compressed]
        shrink == c.adaptive_batching /\ q.batch > min_batch_size(c)
        batch == shrunk_batch(c, q.batch)
    IN [q EXCEPT
          !.assignment = Drop(q.assignment, task_id),
          !.tasks = Put(q.tasks, task_id, task),
          !.pending = Append(q.pending, task),
          !.deadlines = Put(q.deadlines, task_id, t + LeaseSeconds),
          !.batch = batch,
          !.target = IF shrink THEN TargetInflight(batch) ELSE q.target,
          !.log = [q.log EXCEPT ![task_id] =
                      [count |-> @.count + 1,
                       from |-> @.from \cup
                                ({Assigned(q.assignment, task_id)} \ {NoWorker}),
                       stale_from |-> @.stale_from \cup
                           (IF causes \cap {"heartbeat", "lost"} # {}
                            THEN {Assigned(q.assignment, task_id)} ELSE {}),
                       indices |-> outstanding,
                       causes |-> @.causes \cup causes]]]

RECURSIVE lease_sweep(_, _, _, _, _, _)
lease_sweep(c, t, q, ids, hb, lost) ==
    IF ids = <<>> THEN q
    ELSE LET task_id == Head(ids)
             has_outstanding ==
                 task_id \in DOMAIN q.remaining /\ q.remaining[task_id] # {}
             causes ==
                 IF has_outstanding
                 THEN requeue_causes(t, q.deadlines[task_id],
                                     Assigned(q.assignment, task_id), hb, lost)
                 ELSE {}
             q1 == IF causes # {}
                   THEN requeue_task(c, t, q, task_id, causes) ELSE q
         IN lease_sweep(c, t, q1, Tail(ids), hb, lost)

SweepLocals ==
    [tasks |-> tasks, deadlines |-> deadlines, remaining |-> remaining_cases,
     pending |-> pending, assignment |-> assignment,
     batch |-> current_batch_size, target |-> target_inflight_cases,
     log |-> requeueLog]

\* Workers whose last heartbeat is older than the heartbeat window: the
\* only ones the heartbeat manager may declare lost.
StaleWorkers(t, hb) ==
    {w \in Workers : hb[w] # NoBeat /\ t - hb[w] > HeartbeatTimeout}


(***************************************************************************)
(* The dispatch: initial state and the steps of execute.                   *)
(***************************************************************************)
NoAvg == 0 - 1

QueueFields(c) ==
    /\ config = c
    /\ now = 0
    /\ dispPc = "start"
    /\ tasks = EmptyMap
    /\ deadlines = EmptyMap
    /\ remaining_cases = EmptyMap
    /\ outstanding_cases = 0
    /\ next_index = 0
    /\ current_batch_size = initial_batch_size(config)
    /\ target_inflight_cases = TargetInflight(initial_batch_size(config))
    /\ avg_case_ms = NoAvg
    /\ cases_since_adjustment = 0
    /\ results = [i \in Cases |-> EmptyResult]
    /\ received = 0
    /\ pollEnd = 0
    /\ pending = <<>>
    /\ assignment = EmptyMap
    /\ heartbeats = [w \in Workers |-> NoBeat]
    /\ lostWorkers = {}
    /\ resultQueue = <<>>
    /\ wst = [w \in Workers |-> [st |-> "idle", task_id |-> 0, items |-> <<>>]]
    /\ requeueLog = [i \in Cases |->
                        [count |-> 0, from |-> {}, stale_from |-> {},
                         indices |-> {}, causes |-> {}]]
    /\ published = {}
    /\ monitorRecords = [i \in Cases |-> 0]

QueueInit == \E c \in QueueConfigs : QueueFields(c)

\* Lines 185-193: the first batches are published, results is allocated.
ExecuteStart ==
    /\ dispPc = "start"
    /\ SetLocals(maybe_publish_batches(config, now, Locals,
                                       current_batch_size,
                                       target_inflight_cases))
    /\ dispPc' = "loop"
    /\ UNCHANGED otherThanQueue
    /\ UNCHANGED monitorRecords
    /\ UNCHANGED <<config, now, current_batch_size, target_inflight_cases,
                   avg_case_ms, cases_since_adjustment, results, received,
                   pollEnd, assignment, heartbeats, lostWorkers, resultQueue,
                   wst, requeueLog, published>>

\* Line 257 with the deadline itself still counted as time left.
global_timeout_exceeded_Strict(remaining_time) == remaining_time < 0

\* Line 257: the test that raises TimeoutError.
global_timeout_exceeded(remaining_time) == remaining_time <= 0

\* Lines 195-260: one pass from the loop test to the consume_result call,
\* or to the TimeoutError.
LoopTop ==
    /\ dispPc = "loop"
    /\ received < NumCases
    /\ \E newly_lost \in SUBSET StaleWorkers(now, heartbeats) :
         LET lost == IF config.enable_requeue
                     THEN lostWorkers \cup newly_lost ELSE lostWorkers
             q == IF config.enable_requeue
                  THEN lease_sweep(config, now, SweepLocals,
                                   SortedSeq(DOMAIN deadlines), heartbeats, lost)
                  ELSE SweepLocals
             remaining_time == overall_deadline - now
         IN /\ (~config.enable_requeue => newly_lost = {})
            /\ lostWorkers' = lost
            /\ tasks' = q.tasks
            /\ deadlines' = q.deadlines
            /\ pending' = q.pending
            /\ assignment' = q.assignment
            /\ current_batch_size' = q.batch
            /\ target_inflight_cases' = q.target
            /\ requeueLog' = q.log
            /\ IF global_timeout_exceeded(remaining_time)
               THEN dispPc' = "raised" /\ pollEnd' = pollEnd
               ELSE /\ dispPc' = "poll"
                    /\ pollEnd' = now + Min(PollTimeout,
                                            Max(MinPollWait, remaining_time))
    /\ UNCHANGED otherThanQueue
    /\ UNCHANGED monitorRecords
    /\ UNCHANGED <<config, now, remaining_cases, outstanding_cases, next_index,
                   avg_case_ms, cases_since_adjustment, results, received,
                   heartbeats, resultQueue, wst, published>>

\* Line 195 false, line 317: return results.
LoopExit ==
    /\ dispPc = "loop"
    /\ received >= NumCases
    /\ dispPc' = "returned"
    /\ UNCHANGED otherThanQueue
    /\ UNCHANGED monitorRecords
    /\ UNCHANGED <<config, now, tasks, deadlines, remaining_cases,
                   outstanding_cases, next_index, current_batch_size,
                   target_inflight_cases, avg_case_ms, cases_since_adjustment,
                   results, received, pollEnd, pending, assignment, heartbeats,
                   lostWorkers, resultQueue, wst, requeueLog, published>>

\* Lines 261-264: consume_result timed out.
PollEmpty ==
    /\ dispPc = "poll"
    /\ resultQueue = <<>>
    /\ now >= pollEnd
    /\ SetLocals(maybe_publish_batches(config, now, Locals,
                                       current_batch_size,
                                       target_inflight_cases))
    /\ dispPc' = "loop"
    /\ UNCHANGED otherThanQueue
    /\ UNCHANGED monitorRecords
    /\ UNCHANGED <<config, now, current_batch_size, target_inflight_cases,
                   avg_case_ms, cases_since_adjustment, results, received,
                   pollEnd, assignment, heartbeats, lostWorkers, resultQueue,
                   wst, requeueLog, published>>


\* mark: lines 266-276, the acknowledgement of one case of one task.
mark_case_complete(d, task_id, idx) ==
    IF task_id \notin DOMAIN d.remaining THEN d
    ELSE LET hit == idx \in d.remaining[task_id]
             left == d.remaining[task_id] \ {idx}
             d1 == IF hit
                   THEN [d EXCEPT !.remaining = Put(d.remaining, task_id, left),
                                  !.outstanding = Max(0, d.outstanding - 1)]
                   ELSE d
         IN IF left = {}
            THEN [d1 EXCEPT !.remaining = Drop(d1.remaining, task_id),
                            !.deadlines = Drop(d1.deadlines, task_id),
                            !.tasks = Drop(d1.tasks, task_id)]
            ELSE d1

\* Lines 294-313: the moving average and the batch size after one result.
Ewma(avg, duration) ==
    IF avg = NoAvg THEN duration ELSE (8 * avg + 2 * duration) \div 10

adaptive_adjust(c, a, duration, pending_tasks) ==
    IF ~(c.adaptive_batching /\ duration > 0) THEN a
    ELSE LET since == a.since + 1
             avg == Ewma(a.avg, duration)
         IN IF since < AdjustmentWindow
            THEN [a EXCEPT !.since = since, !.avg = avg]
            ELSE LET batch ==
                         IF avg < FastThresholdMs /\ pending_tasks <= NumWorkers
                         THEN (IF a.batch < max_batch_size(c)
                               THEN a.batch + 1 ELSE a.batch)
                         ELSE IF avg > SlowThresholdMs
                                 \/ pending_tasks > NumWorkers * 4
                         THEN (IF a.batch > min_batch_size(c)
                               THEN a.batch - 1 ELSE a.batch)
                         ELSE a.batch
                 IN [since |-> 0, avg |-> avg, batch |-> batch,
                     target |-> TargetInflight(batch)]

\* Line 290 without the increment.
received_after_NotCounted(n) == n

received_after(n) == n + 1

\* Lines 261, 266-315: one result message is consumed and recorded, and
\* handed to the monitors (lines 278-288).
PollMessage ==
    /\ dispPc = "poll"
    /\ resultQueue # <<>>
    /\ LET message == Head(resultQueue)
           idx == message.case_index
           d1 == mark_case_complete(Locals, message.task_id, idx)
           a == adaptive_adjust(config,
                                [since |-> cases_since_adjustment,
                                 avg |-> avg_case_ms,
                                 batch |-> current_batch_size,
                                 target |-> target_inflight_cases],
                                message.result.duration_ms, Len(pending))
       IN /\ resultQueue' = Tail(resultQueue)
          /\ assignment' = Drop(assignment, message.task_id)
          /\ results' = [results EXCEPT ![idx] = message.result]
          /\ monitorRecords' = [monitorRecords EXCEPT ![idx] = @ + 1]
          /\ received' = received_after(received)
          /\ cases_since_adjustment' = a.since
          /\ avg_case_ms' = a.avg
          /\ current_batch_size' = a.batch
          /\ target_inflight_cases' = a.target
          /\ SetLocals(maybe_publish_batches(config, now, d1, a.batch, a.target))
    /\ dispPc' = "loop"
    /\ UNCHANGED otherThanQueue
    /\ UNCHANGED <<config, now, pollEnd, heartbeats, lostWorkers, wst,
                   requeueLog, published>>

\* The clock advances while execute is blocked in consume_result.
Tick ==
    /\ dispPc = "poll"
    /\ resultQueue = <<>>
    /\ now < pollEnd
    /\ now' = now + 1
    /\ UNCHANGED otherThanQueue
    /\ UNCHANGED monitorRecords
    /\ UNCHANGED <<config, dispPc, tasks, deadlines, remaining_cases,
                   outstanding_cases, next_index, current_batch_size,
                   target_inflight_cases, avg_case_ms, cases_since_adjustment,
                   results, received, pollEnd, pending, assignment, heartbeats,
                   lostWorkers, resultQueue, wst, requeueLog, published>>

(***************************************************************************)
(* Workers (_LocalWorker.run, or any process driving the adapter).         *)
(***************************************************************************)
Running == dispPc \in {"loop", "poll"}

\* register_worker: the heartbeat is refreshed, a lost mark is cleared.
WorkerHeartbeat(w) ==
    /\ Running
    /\ wst[w].st # "crashed"
    /\ heartbeats[w] # now
    /\ heartbeats' = [heartbeats EXCEPT ![w] = now]
    /\ lostWorkers' = lostWorkers \ {w}
    /\ UNCHANGED otherThanQueue
    /\ UNCHANGED monitorRecords
    /\ UNCHANGED <<config, now, dispPc, tasks, deadlines, remaining_cases,
                   outstanding_cases, next_index, current_batch_size,
                   target_inflight_cases, avg_case_ms, cases_since_adjustment,
                   results, received, pollEnd, pending, assignment,
                   resultQueue, wst, requeueLog, published>>

\* Lines 343-355: register, consume one task, decode it, pair indices and
\* arguments.
WorkerConsume(w) ==
    /\ Running
    /\ wst[w].st = "idle"
    /\ pending # <<>>
    /\ LET task == Head(pending)
           args_list == decode_args(task.payload, task.compressed,
                                    task.use_msgpack, config.msgpack_available)
       IN /\ pending' = Tail(pending)
          /\ assignment' = Put(assignment, task.task_id, w)
          /\ wst' = [wst EXCEPT ![w] =
                IF ~args_list.ok
                THEN [st |-> "crashed", task_id |-> task.task_id, items |-> <<>>]
                ELSE LET items == Zip(task.case_indices, args_list.args)
                     IN [st |-> IF items = <<>> THEN "idle" ELSE "busy",
                         task_id |-> task.task_id, items |-> items]]
    /\ heartbeats' = [heartbeats EXCEPT ![w] = now]
    /\ lostWorkers' = lostWorkers \ {w}
    /\ UNCHANGED otherThanQueue
    /\ UNCHANGED monitorRecords
    /\ UNCHANGED <<config, now, dispPc, tasks, deadlines, remaining_cases,
                   outstanding_cases, next_index, current_batch_size,
                   target_inflight_cases, avg_case_ms, cases_since_adjustment,
                   results, received, pollEnd, resultQueue, requeueLog,
                   published>>

\* Lines 355-365: run one case and publish its result.
WorkerRunCase(w) ==
    /\ Running
    /\ wst[w].st = "busy"
    /\ LET item == Head(wst[w].items)
           rest == Tail(wst[w].items)
       IN /\ resultQueue' = Append(resultQueue,
                [task_id |-> wst[w].task_id, case_index |-> item.idx,
                 result |-> RunCase(item.idx, item.args), by |-> w])
          /\ wst' = [wst EXCEPT ![w] =
                [@ EXCEPT !.items = rest,
                          !.st = IF rest = <<>> THEN "idle" ELSE "busy"]]
    /\ UNCHANGED otherThanQueue
    /\ UNCHANGED monitorRecords
    /\ UNCHANGED <<config, now, dispPc, tasks, deadlines, remaining_cases,
                   outstanding_cases, next_index, current_batch_size,
                   target_inflight_cases, avg_case_ms, cases_since_adjustment,
                   results, received, pollEnd, pending, assignment, heartbeats,
                   lostWorkers, requeueLog>>
    /\ published' = published \cup
           {[task_id |-> wst[w].task_id,
             case_index |-> Head(wst[w].items).idx, by |-> w]}

DispatcherStep ==
    \/ ExecuteStart
    \/ LoopTop
    \/ LoopExit
    \/ PollEmpty
    \/ PollMessage

QueueNext ==
    \/ DispatcherStep
    \/ Tick
    \/ \E w \in Workers : WorkerHeartbeat(w)
    \/ \E w \in Workers : WorkerConsume(w)
    \/ \E w \in Workers : WorkerRunCase(w)

(***************************************************************************)
(* LocalDispatcher.execute, called directly or as the delegate that        *)
(* ensure_dispatcher gives a ShadowDispatcher.  A call of run_case either  *)
(* returns a result or raises; `raised` tells which.                       *)
(***************************************************************************)
LocalConfigs ==
    [workers : {1, 2}, use_process_pool : BOOLEAN,
     shadow : {"none", "safe", "unsafe"}]

\* The caller's run_case: raises on the faulty cases, else echoes its input.
caller_run_case(faulty, idx, args) ==
    IF idx \in faulty
    THEN [raised |-> TRUE, value |-> EmptyResult]
    ELSE [raised |-> FALSE, value |-> RunCase(idx, args)]

\* shadow.py lines 123-128: the result that stands for a swallowed exception.
SuppressedResult ==
    [filled |-> TRUE, success |-> FALSE, result |-> 0 - 1, duration_ms |-> 0,
     shadow_suppressed |-> TRUE]

\* shadow.py lines 113-129.
safe_run_case(safe_mode, faulty, idx, args) ==
    LET r == caller_run_case(faulty, idx, args)
    IN IF ~r.raised THEN r
       ELSE IF safe_mode THEN [raised |-> FALSE, value |-> SuppressedResult]
       ELSE r

\* The run_case that LocalDispatcher.execute is given.
delegate_run_case(c, faulty, idx, args) ==
    IF c.shadow = "none" THEN caller_run_case(faulty, idx, args)
    ELSE safe_run_case(c.shadow = "safe", faulty, idx, args)

\* local.py lines 47-92: _invoke records to the monitors unless run_case
\* raised; records is the count of monitor.record calls per case.
invoke(c, faulty, records, idx, args) ==
    LET r == delegate_run_case(c, faulty, idx, args)
    IN [raised |-> r.raised, value |-> r.value,
        records |-> IF r.raised THEN records
                    ELSE [records EXCEPT ![idx] = @ + 1]]

effective_workers(c) == c.workers

NewFuture(st) == [st |-> st, value |-> EmptyResult, seen |-> FALSE]

Completed(f) == f.st \in {"done", "error", "unpicklable"}

DispatchFields(c, faulty) ==
    /\ ldConfig = c
    /\ ldFaulty = faulty
    /\ ldPc = "start"
    /\ ldResults = [i \in Cases |-> EmptyResult]
    /\ ldFutures = [i \in Cases |-> NewFuture("none")]
    /\ ldIdx = 0
    /\ ldRecords = [i \in Cases |-> 0]
    /\ ldFellBack = FALSE

DispatchInit ==
    \E c \in LocalConfigs : \E faulty \in SUBSET Cases :
        DispatchFields(c, faulty)

\* Lines 103, 111-118: the serial loop is entered, or every case is
\* submitted to the pool.  _invoke is a closure, which a process pool
\* cannot pickle: each future of a process pool fails with that error.
LocalStart ==
    /\ ldPc = "start"
    /\ IF effective_workers(ldConfig) <= 1
       THEN ldPc' = "serial" /\ ldFutures' = ldFutures
       ELSE /\ ldPc' = "pool"
            /\ ldFutures' = [i \in Cases |->
                  NewFuture(IF ldConfig.use_process_pool
                            THEN "unpicklable" ELSE "pending")]
    /\ UNCHANGED otherThanDispatch
    /\ UNCHANGED <<ldConfig, ldFaulty, ldResults, ldIdx, ldRecords, ldFellBack>>

\* Lines 104-106: one iteration of the serial loop, and the return after
\* the last one.
LocalSerialCase ==
    /\ ldPc = "serial"
    /\ ldIdx < NumCases
    /\ LET o == invoke(ldConfig, ldFaulty, ldRecords, ldIdx, test_inputs[ldIdx])
       IN IF o.raised
          THEN /\ ldPc' = "raised"
               /\ UNCHANGED <<ldResults, ldIdx, ldRecords>>
          ELSE /\ ldResults' = [ldResults EXCEPT ![ldIdx] = o.value]
               /\ ldRecords' = o.records
               /\ ldIdx' = ldIdx + 1
               /\ ldPc' = IF ldIdx + 1 = NumCases THEN "returned" ELSE "serial"
    /\ UNCHANGED otherThanDispatch
    /\ UNCHANGED <<ldConfig, ldFaulty, ldFutures, ldFellBack>>

\* A pool thread runs _invoke for one submitted case.  The pool keeps
\* running what was submitted while the `with` block is being left.
PoolWorkerRun(i) ==
    /\ ldPc \in {"pool", "fallback", "unwinding"}
    /\ ldFutures[i].st = "pending"
    /\ LET o == invoke(ldConfig, ldFaulty, ldRecords, i, test_inputs[i])
       IN /\ ldFutures' = [ldFutures EXCEPT ![i] =
                [st |-> IF o.raised THEN "error" ELSE "done",
                 value |-> o.value, seen |-> FALSE]]
          /\ ldRecords' = o.records
    /\ UNCHANGED otherThanDispatch
    /\ UNCHANGED <<ldConfig, ldFaulty, ldPc, ldResults, ldIdx, ldFellBack>>

\* Lines 119-133: as_completed yields one finished future.  Its result is
\* stored at its index; a pickling error is caught at line 125 and starts
\* the thread pool of line 134; any other exception leaves execute.
PoolYield(i) ==
    /\ ldPc = "pool"
    /\ Completed(ldFutures[i])
    /\ ~ldFutures[i].seen
    /\ CASE ldFutures[i].st = "done" ->
              /\ ldResults' = [ldResults EXCEPT ![i] = ldFutures[i].value]
              /\ ldFutures' = [ldFutures EXCEPT ![i].seen = TRUE]
              /\ UNCHANGED <<ldPc, ldFellBack>>
         [] ldFutures[i].st = "unpicklable" ->
              /\ ldPc' = "fallback"
              /\ ldFellBack' = TRUE
              /\ ldFutures' = [j \in Cases |-> NewFuture("pending")]
              /\ UNCHANGED ldResults
         [] ldFutures[i].st = "error" ->
              /\ ldPc' = "unwinding"
              /\ UNCHANGED <<ldResults, ldFutures, ldFellBack>>
    /\ UNCHANGED otherThanDispatch
    /\ UNCHANGED <<ldConfig, ldFaulty, ldIdx, ldRecords>>

\* Line 145 after the loop of line 119 has seen every future.
PoolReturn ==
    /\ ldPc = "pool"
    /\ \A i \in Cases : ldFutures[i].seen
    /\ ldPc' = "returned"
    /\ UNCHANGED otherThanDispatch
    /\ UNCHANGED <<ldConfig, ldFaulty, ldResults, ldFutures, ldIdx, ldRecords,
                   ldFellBack>>

\* Lines 139-141: one iteration of the loop of the fallback: idx and
\* result are assigned, nothing is stored.
FallbackYield(i) ==
    /\ ldPc = "fallback"
    /\ Completed(ldFutures[i])
    /\ ~ldFutures[i].seen
    /\ IF ldFutures[i].st = "error"
       THEN ldPc' = "unwinding" /\ UNCHANGED <<ldFutures, ldIdx>>
       ELSE /\ ldIdx' = i
            /\ ldFutures' = [ldFutures EXCEPT ![i].seen = TRUE]
            /\ ldPc' = ldPc
    /\ UNCHANGED otherThanDispatch
    /\ UNCHANGED <<ldConfig, ldFaulty, ldResults, ldRecords, ldFellBack>>

\* Line 142, which follows the loop: the result of the future seen last is
\* stored at the index seen last; then line 145.
FallbackStore ==
    /\ ldPc = "fallback"
    /\ \A i \in Cases : ldFutures[i].seen
    /\ ldResults' = [ldResults EXCEPT ![ldIdx] = ldFutures[ldIdx].value]
    /\ ldPc' = "returned"
    /\ UNCHANGED otherThanDispatch
    /\ UNCHANGED <<ldConfig, ldFaulty, ldFutures, ldIdx, ldRecords, ldFellBack>>

\* The `with` block is left on an exception once the pool has run every
\* submitted case; the exception then leaves execute.
Unwound ==
    /\ ldPc = "unwinding"
    /\ \A i \in Cases : ldFutures[i].st # "pending"
    /\ ldPc' = "raised"
    /\ UNCHANGED otherThanDispatch
    /\ UNCHANGED <<ldConfig, ldFaulty, ldResults, ldFutures, ldIdx, ldRecords,
                   ldFellBack>>

DispatchNext ==
    \/ LocalStart
    \/ LocalSerialCase
    \/ \E i \in Cases : PoolWorkerRun(i)
    \/ \E i \in Cases : PoolYield(i)
    \/ PoolReturn
    \/ \E i \in Cases : FallbackYield(i)
    \/ FallbackStore
    \/ Unwound


(***************************************************************************)
(* _run_local_sandbox: one call.  The child runs the bootstrap program;    *)
(* what it does is an input of the call: it returns, fails in one of the   *)
(* ways the bootstrap reports, leaves without a marker, is stopped by a    *)
(* resource limit, writes bytes that cannot be decoded, or hangs.          *)
(***************************************************************************)
MaxTimeout == 2        \* timeout_s ranges over 1 .. MaxTimeout ticks
MaxRuntime == 2        \* the child needs 0 .. MaxRuntime ticks

ChildKinds ==
    {"returns", "solve_raises", "import_error", "missing_entry", "no_marker",
     "limit_exceeded", "undecodable_output", "hangs"}

PopenErrors == {"none", "OSError", "ValueError"}

SandboxArgs ==
    [timeout_s : 1 .. MaxTimeout, kind : ChildKinds, runtime : 0 .. MaxRuntime,
     popen_error : PopenErrors]

SigKill == 0 - 9

\* How a child of each kind can end: its return code and whether its
\* standard output holds a success marker.
child_exit(kind) ==
    CASE kind = "returns" -> {[returncode |-> 0, marker |-> TRUE]}
      [] kind \in {"solve_raises", "import_error", "missing_entry"} ->
             {[returncode |-> rc, marker |-> FALSE] : rc \in {0, 1}}
      [] kind = "no_marker" -> {[returncode |-> 0, marker |-> FALSE]}
      [] kind = "limit_exceeded" -> {[returncode |-> SigKill, marker |-> FALSE]}
      [] kind = "undecodable_output" -> {[returncode |-> 0, marker |-> TRUE]}
      [] OTHER -> {}

NoProcess == [state |-> "none", returncode |-> 0, marker |-> FALSE]

\* sandbox.py lines 684-714, with the fields the callers read.
result_envelope(success, error_type, error_code) ==
    [success |-> success, error_type |-> error_type, error_code |-> error_code]

NoEnvelope == result_envelope(FALSE, "unset", "unset")

\* parse_success(stdout): None unless a success marker is present.
parse_success(marker) == IF marker THEN "parsed" ELSE "None"

\* Lines 179-214 without the test of line 195.
classify_exit_NoParseCheck(returncode, marker) ==
    IF returncode # 0
    THEN result_envelope(FALSE, "process_exit", "SANDBOX_EXIT_CODE")
    ELSE result_envelope(TRUE, "none", "none")

\* Lines 179-214: the envelope for a child that communicate() collected.
classify_exit(returncode, marker) ==
    IF returncode # 0
    THEN result_envelope(FALSE, "process_exit", "SANDBOX_EXIT_CODE")
    ELSE IF parse_success(marker) = "None"
    THEN result_envelope(FALSE, "output_parse", "SANDBOX_PARSE_ERROR")
    ELSE result_envelope(TRUE, "none", "none")

\* Lines 216-227: what `except Exception` makes of an exception raised
\* between lines 146 and 214.
on_exception(exc) ==
    [raised |-> FALSE,
     value |-> result_envelope(FALSE, "internal_error",
                               "SANDBOX_UNHANDLED_EXCEPTION")]

\* Line 165 without the signal.
process_kill_NoSignal(ch) == ch

\* Line 165: Popen.kill() signals a child that has not exited and does
\* nothing to one that has.
process_kill(ch) ==
    IF ch.state = "running"
    THEN [ch EXCEPT !.state = "exited", !.returncode = SigKill,
                    !.marker = FALSE]
    ELSE ch

SandboxFields(a) ==
    /\ sbArgs = a
    /\ sbPc = "start"
    /\ sbClock = 0
    /\ sbDeadline = 0
    /\ child = NoProcess
    /\ sbResult = NoEnvelope

SandboxInit == \E a \in SandboxArgs : SandboxFields(a)

\* The call ends with the outcome o of an exception handler.
Finish(o) ==
    /\ sbPc' = IF o.raised THEN "raised" ELSE "returned"
    /\ sbResult' = o.value

\* Lines 146-163: Popen starts the child, or raises.
SandboxSpawn ==
    /\ sbPc = "start"
    /\ IF sbArgs.popen_error # "none"
       THEN /\ Finish(on_exception(sbArgs.popen_error))
            /\ UNCHANGED <<sbDeadline, child>>
       ELSE /\ child' = [NoProcess EXCEPT !.state = "running"]
            /\ sbDeadline' = sbClock + sbArgs.timeout_s
            /\ sbPc' = "communicate"
            /\ UNCHANGED sbResult
    /\ UNCHANGED otherThanSandbox
    /\ UNCHANGED <<sbArgs, sbClock>>

\* The child ends by itself, no sooner than its runtime.
ChildExit ==
    /\ child.state = "running"
    /\ sbClock >= sbArgs.runtime
    /\ \E e \in child_exit(sbArgs.kind) :
          child' = [state |-> "exited", returncode |-> e.returncode,
                    marker |-> e.marker]
    /\ UNCHANGED otherThanSandbox
    /\ UNCHANGED <<sbArgs, sbPc, sbClock, sbDeadline, sbResult>>

\* Time passes while communicate() waits for the running child.
SandboxTick ==
    /\ sbPc = "communicate"
    /\ child.state = "running"
    /\ sbClock < sbDeadline
    /\ sbClock' = sbClock + 1
    /\ UNCHANGED otherThanSandbox
    /\ UNCHANGED <<sbArgs, sbPc, sbDeadline, child, sbResult>>

\* Lines 163, 179-214: communicate() collects the child that exited and the
\* envelope is built; output that cannot be decoded makes communicate()
\* raise into line 216.
CommunicateDone ==
    /\ sbPc = "communicate"
    /\ child.state = "exited"
    /\ child' = [child EXCEPT !.state = "reaped"]
    /\ IF sbArgs.kind = "undecodable_output"
       THEN Finish(on_exception("UnicodeDecodeError"))
       ELSE Finish([raised |-> FALSE,
                    value |-> classify_exit(child.returncode, child.marker)])
    /\ UNCHANGED otherThanSandbox
    /\ UNCHANGED <<sbArgs, sbClock, sbDeadline>>

\* Line 164: communicate() gives up at the deadline.
CommunicateTimeout ==
    /\ sbPc = "communicate"
    /\ child.state \in {"running", "exited"}
    /\ sbClock >= sbDeadline
    /\ sbPc' = "kill"
    /\ UNCHANGED otherThanSandbox
    /\ UNCHANGED <<sbArgs, sbClock, sbDeadline, child, sbResult>>

\* Line 165.
SandboxKill ==
    /\ sbPc = "kill"
    /\ child' = process_kill(child)
    /\ sbPc' = "wait"
    /\ UNCHANGED otherThanSandbox
    /\ UNCHANGED <<sbArgs, sbClock, sbDeadline, sbResult>>

\* Lines 166-177: wait() returns once the child has exited; the timeout
\* envelope is returned.
SandboxWait ==
    /\ sbPc = "wait"
    /\ child.state = "exited"
    /\ child' = [child EXCEPT !.state = "reaped"]
    /\ Finish([raised |-> FALSE,
               value |-> result_envelope(FALSE, "timeout", "SANDBOX_TIMEOUT")])
    /\ UNCHANGED otherThanSandbox
    /\ UNCHANGED <<sbArgs, sbClock, sbDeadline>>

SandboxNext ==
    \/ SandboxSpawn
    \/ ChildExit
    \/ SandboxTick
    \/ CommunicateDone
    \/ CommunicateTimeout
    \/ SandboxKill
    \/ SandboxWait


(***************************************************************************)
(* _evaluate_results for one role.  The spec's hard properties, its        *)
(* relations' transforms and the rerun closure are the caller's: what      *)
(* each call of them yields is chosen when it is made.  Arguments and      *)
(* outputs are small integers; equivalence is equality of outputs.         *)
(***************************************************************************)
NumRelations == 2      \* len(spec.relations)
MaxViolationCap == 2   \* violation_cap ranges over 0 .. MaxViolationCap

Relations == 0 .. (NumRelations - 1)
HardProperties == <<"p1", "p2">>
EvalValues == {0, 1}
NoRelation == 0 - 1

ExecutionResults ==
    {[success |-> FALSE, result |-> 0]}
    \cup {[success |-> TRUE, result |-> o] : o \in EvalValues}

EvalInputs ==
    [results : [Cases -> ExecutionResults],
     violation_cap : 0 .. MaxViolationCap]

TransformOutcomes ==
    {[raised |-> TRUE, args |-> 0]}
    \cup {[raised |-> FALSE, args |-> a] : a \in EvalValues}

CheckOutcomes == {"pass", "fail", "raise"}

\* harness.py lines 727-729.
relation_cache_key(relation_index, args) == <<relation_index, args>>

\* Line 649 with the test always false.
cache_hit_Never(cache, cache_key) == FALSE

\* Line 649: `cache_key in rerun_cache`.
cache_hit(cache, cache_key) == cache_key \in DOMAIN cache

\* Lines 566, 586, 597, 636, 657, 678 without the test of the length.
capped_append_Uncapped(violations, cap, entry) == Append(violations, entry)

\* Lines 566, 586, 597, 636, 657, 678: append unless the list is full.
capped_append(violations, cap, entry) ==
    IF Len(violations) < cap THEN Append(violations, entry) ELSE violations

\* Lines 580-606 over the hard properties in order, given the outcome of
\* each check.
RECURSIVE check_properties(_, _, _, _, _)
check_properties(props, outcome, violations, cap, idx) ==
    IF props = <<>> THEN violations
    ELSE LET p == Head(props)
             v == IF outcome[p] = "pass" THEN violations
                  ELSE capped_append(violations, cap,
                                     [test_case |-> idx, what |-> p])
         IN check_properties(Tail(props), outcome, v, cap, idx)

PropertyNames == {HardProperties[k] : k \in 1 .. Len(HardProperties)}

NoHistory ==
    [transformed |-> [i \in Cases |-> <<>>],
     consulted |-> [i \in Cases |-> <<>>],
     first_failure |-> [i \in Cases |-> NoRelation],
     reruns |-> <<>>]

EvalFields(e) ==
    /\ evInput = e
    /\ evPc = "case"
    /\ evIdx = 0
    /\ evRel = 0
    /\ mr_passed = TRUE
    /\ passes = 0
    /\ pass_indicators = <<>>
    /\ prop_violations = <<>>
    /\ mr_violations = <<>>
    /\ rerun_cache = EmptyMap
    /\ relation_stats = [r \in Relations |-> [total |-> 0, failures |-> 0]]
    /\ evHistory = NoHistory

EvalInit == \E e \in EvalInputs : EvalFields(e)

\* Lines 562-613: the execution check and the hard properties of one case.
EvalCase ==
    /\ evPc = "case"
    /\ evIdx < NumCases
    /\ LET result == evInput.results[evIdx]
           cap == evInput.violation_cap
       IN IF ~result.success
          THEN /\ prop_violations' =
                     capped_append(prop_violations, cap,
                                   [test_case |-> evIdx, what |-> "execution"])
               /\ pass_indicators' = Append(pass_indicators, 0)
               /\ evIdx' = evIdx + 1
               /\ UNCHANGED <<evPc, evRel, mr_passed>>
          ELSE \E outcome \in [PropertyNames -> CheckOutcomes] :
               /\ prop_violations' =
                     check_properties(HardProperties, outcome, prop_violations,
                                      cap, evIdx)
               /\ IF \E p \in PropertyNames : outcome[p] # "pass"
                  THEN /\ pass_indicators' = Append(pass_indicators, 0)
                       /\ evIdx' = evIdx + 1
                       /\ UNCHANGED <<evPc, evRel, mr_passed>>
                  ELSE /\ mr_passed' = TRUE
                       /\ evRel' = 0
                       /\ evPc' = IF NumRelations > 0 THEN "relation"
                                  ELSE "case_end"
                       /\ UNCHANGED <<pass_indicators, evIdx>>
    /\ UNCHANGED otherThanEval
    /\ UNCHANGED <<evInput, passes, mr_violations, rerun_cache, relation_stats,
                   evHistory>>

\* Lines 646, 667, 688 with `continue` in place of `break`.
after_failure_Continue(relation_index) == relation_index + 1

\* Lines 646, 667, 688: `break` leaves the loop over the relations.
after_failure(relation_index) == NumRelations

\* Lines 614-688: one iteration of the loop over the relations.  t is what
\* the transform yields; rr is the relation result, taken from the cache
\* when the key is there and from a call of rerun when it is not.
EvalRelation ==
    /\ evPc = "relation"
    /\ \E t \in TransformOutcomes :
       LET cache_key == relation_cache_key(evRel, t.args)
           cached == ~t.raised /\ cache_hit(rerun_cache, cache_key)
       IN \E rr \in (IF cached THEN {rerun_cache[cache_key]}
                     ELSE ExecutionResults) :
          LET output == evInput.results[evIdx].result
              failed == \/ t.raised
                        \/ ~rr.success
                        \/ rr.result # output
              next_rel == IF failed THEN after_failure(evRel) ELSE evRel + 1
          IN /\ relation_stats' = [relation_stats EXCEPT ![evRel] =
                    [total |-> @.total + 1,
                     failures |-> @.failures + (IF failed THEN 1 ELSE 0)]]
             /\ rerun_cache' = IF t.raised \/ cached THEN rerun_cache
                               ELSE Put(rerun_cache, cache_key, rr)
             /\ mr_violations' =
                    IF failed
                    THEN capped_append(mr_violations, evInput.violation_cap,
                                       [test_case |-> evIdx, what |-> evRel])
                    ELSE mr_violations
             /\ mr_passed' = (mr_passed /\ ~failed)
             /\ evRel' = next_rel
             /\ evPc' = IF next_rel >= NumRelations THEN "case_end"
                        ELSE "relation"
             /\ evHistory' =
                  [transformed |->
                       [evHistory.transformed EXCEPT ![evIdx] = Append(@, evRel)],
                   consulted |->
                       IF t.raised THEN evHistory.consulted
                       ELSE [evHistory.consulted EXCEPT
                                ![evIdx] = Append(@, evRel)],
                   first_failure |->
                       IF failed /\ evHistory.first_failure[evIdx] = NoRelation
                       THEN [evHistory.first_failure EXCEPT ![evIdx] = evRel]
                       ELSE evHistory.first_failure,
                   reruns |->
                       IF t.raised \/ cached THEN evHistory.reruns
                       ELSE Append(evHistory.reruns, cache_key)]
    /\ UNCHANGED otherThanEval
    /\ UNCHANGED <<evInput, evIdx, passes, pass_indicators, prop_violations>>

\* Lines 690-696: the case is counted.
EvalCaseEnd ==
    /\ evPc = "case_end"
    /\ passes' = IF mr_passed THEN passes + 1 ELSE passes
    /\ pass_indicators' = Append(pass_indicators, IF mr_passed THEN 1 ELSE 0)
    /\ evIdx' = evIdx + 1
    /\ evPc' = "case"
    /\ UNCHANGED otherThanEval
    /\ UNCHANGED <<evInput, evRel, mr_passed, prop_violations, mr_violations,
                   rerun_cache, relation_stats, evHistory>>

\* Lines 698-706.
EvalReturn ==
    /\ evPc = "case"
    /\ evIdx >= NumCases
    /\ evPc' = "returned"
    /\ UNCHANGED otherThanEval
    /\ UNCHANGED <<evInput, evIdx, evRel, mr_passed, passes, pass_indicators,
                   prop_violations, mr_violations, rerun_cache, relation_stats,
                   evHistory>>

EvalNext ==
    \/ EvalCase
    \/ EvalRelation
    \/ EvalCaseEnd
    \/ EvalReturn


(***************************************************************************)
(* run_eval from the call of the gate (line 385) to the return (line 533). *)
(* decide_adopt is given the assembled report; it returns a decision or    *)
(* raises.  What it does is an input of the run.                           *)
(***************************************************************************)
GateExceptions == {"KeyError", "TypeError", "ValueError"}

GateReasons == {"ci_lower_below_min_delta", "pass_rate_below_minimum"}

\* A decision: adopt and a reason, the reason as the pieces of its text.
GateDecisions ==
    {[adopt |-> TRUE, reason |-> <<"meets_gate">>]}
    \cup {[adopt |-> FALSE, reason |-> <<r>>] : r \in GateReasons}

NoDecision == [adopt |-> FALSE, reason |-> <<>>]

\* What a call of decide_adopt can do.
GateOutcomes ==
    {[raised |-> FALSE, exc |-> "none", decision |-> d] : d \in GateDecisions}
    \cup {[raised |-> TRUE, exc |-> e, decision |-> NoDecision] :
            e \in GateExceptions}

GateInputs ==
    [gate : GateOutcomes, prop_violations : BOOLEAN, mr_violations : BOOLEAN,
     project_root : BOOLEAN, monitors : BOOLEAN]

\* Lines 385-386 without the try block.
guarded_decide_adopt_Unguarded(outcome) ==
    [raised |-> outcome.raised, value |-> outcome.decision]

\* Lines 385-391: the call of the gate inside try/except Exception; the
\* reason of the fallback is f"gate_error: {exc}".
guarded_decide_adopt(outcome) ==
    IF outcome.raised
    THEN [raised |-> FALSE,
          value |-> [adopt |-> FALSE,
                     reason |-> <<"gate_error", ": ", outcome.exc>>]]
    ELSE [raised |-> FALSE, value |-> outcome.decision]

\* Lines 517-522: the test that guards write_failed_artifacts.
needs_failed_artifacts(decision, prop, mr) == ~decision.adopt \/ prop \/ mr

NoReport ==
    [decision |-> NoDecision, statistics |-> FALSE, monitors |-> FALSE]

GateFields(g) ==
    /\ gtInput = g
    /\ gtPc = "gate"
    /\ gtResult = NoReport
    /\ gtArtifact = "none"

GateInit == \E g \in GateInputs : GateFields(g)

\* Lines 385-391.
RunEvalGate ==
    /\ gtPc = "gate"
    /\ LET o == guarded_decide_adopt(gtInput.gate)
       IN IF o.raised
          THEN gtPc' = "raised" /\ UNCHANGED gtResult
          ELSE /\ gtResult' = [gtResult EXCEPT !.decision = o.value]
               /\ gtPc' = "statistics"
    /\ UNCHANGED otherThanGate
    /\ UNCHANGED <<gtInput, gtArtifact>>

\* Lines 393-505: power estimate, relation coverage, policy, version and
\* monitor blocks are added to the report; the decision is left as it is.
RunEvalStatistics ==
    /\ gtPc = "statistics"
    /\ gtResult' = [gtResult EXCEPT !.statistics = TRUE,
                                    !.monitors = gtInput.monitors]
    /\ gtPc' = "artifacts"
    /\ UNCHANGED otherThanGate
    /\ UNCHANGED <<gtInput, gtArtifact>>

\* Lines 516-531: the failed-artifact snapshot; util.py lines 218-223: it
\* is skipped when no project root is found.
RunEvalArtifacts ==
    /\ gtPc = "artifacts"
    /\ gtArtifact' =
          IF needs_failed_artifacts(gtResult.decision, gtInput.prop_violations,
                                    gtInput.mr_violations)
          THEN (IF gtInput.project_root THEN "written" ELSE "skipped")
          ELSE "none"
    /\ gtPc' = "return"
    /\ UNCHANGED otherThanGate
    /\ UNCHANGED <<gtInput, gtResult>>

\* Line 533.
RunEvalReturn ==
    /\ gtPc = "return"
    /\ gtPc' = "returned"
    /\ UNCHANGED otherThanGate
    /\ UNCHANGED <<gtInput, gtResult, gtArtifact>>

GateNext ==
    \/ RunEvalGate
    \/ RunEvalStatistics
    \/ RunEvalArtifacts
    \/ RunEvalReturn


(***************************************************************************)
(* run_eval called twice with one configuration and one deterministic      *)
(* implementation per role (lines 168-262 and 536-706, for one role).      *)
(* The dispatcher is named by the configuration; the concurrently          *)
(* dispatched cases complete in any order.  The task has one hard property *)
(* and one relation that takes the injected generator.                     *)
(***************************************************************************)
RunSeed == 42

InputValues == {InputVal(i) : i \in Cases}

NoneResult == [success |-> FALSE, result |-> 0 - 1]

RunConfigs ==
    [dispatcher : {"local", "process", "shadow"}, parallel : {1, 2},
     sample_rate : {"one", "below_one"}]

RunImpls == [InputValues -> ExecutionResults]

\* Lines 709-724: a generator that is a function of seed, case index and
\* relation index; its first draw stands for it.
relation_rng(seed, case_index, relation_index) ==
    (seed + 3 * case_index + relation_index) % 2

\* The relation's transform: the input itself or the next input, by the draw.
run_transform(val, rng) ==
    IF rng = 0 THEN val ELSE InputVal((val - InputVal(0) + 1) % NumCases)

\* The hard property: the output is the parity of the input.
run_property(val, output) == output = val % 2

\* shadow.py lines 97-107, local.py lines 186-193: the inputs a dispatcher
\* executes.  run_eval passes no seed to execute, so below a sample rate of
\* one the generator of line 100 is seeded from the system: any
\* subsequence of the inputs can be kept.
shadow_samples(c) ==
    IF c.dispatcher = "shadow" /\ c.sample_rate = "below_one"
    THEN {SortedSeq(S) : S \in SUBSET Cases}
    ELSE {RangeSeq(0, NumCases)}

\* local.py lines 103, 111-145: how execute stores what completes.
store_mode(c) ==
    IF c.parallel <= 1 THEN "serial"
    ELSE IF c.dispatcher = "process" THEN "fallback"
    ELSE "pool"

\* Lines 562-696 for the pair (results[k], test_inputs[k]) at idx = k - 1.
evaluate_case(impl, result, idx, m) ==
    LET val == InputVal(idx)
        cap == MaxViolationCap
    IN IF ~result.success
       THEN [m EXCEPT !.prop_violations = Min(@ + 1, cap)]
       ELSE IF ~run_property(val, result.result)
       THEN [m EXCEPT !.prop_violations = Min(@ + 1, cap)]
       ELSE LET rr == impl[run_transform(val, relation_rng(RunSeed, idx, 0))]
            IN IF ~rr.success \/ rr.result # result.result
               THEN [m EXCEPT !.mr_violations = Min(@ + 1, cap)]
               ELSE [m EXCEPT !.passes = @ + 1]

\* Lines 562-706: the loop over zip(results, test_inputs) from pair k on.
\* An entry that is still None makes line 563 raise.
RECURSIVE evaluate_results(_, _, _, _)
evaluate_results(impl, res, k, m) ==
    IF k > Min(Len(res), NumCases) THEN m
    ELSE IF res[k] = NoneResult THEN [m EXCEPT !.raised = TRUE]
    ELSE evaluate_results(impl, res, k + 1,
                          evaluate_case(impl, res[k], k - 1, m))

NoMetrics ==
    [raised |-> FALSE, passes |-> 0, total |-> 0, prop_violations |-> 0,
     mr_violations |-> 0]

RunsFields(c, impl) ==
    /\ rnConfig = c
    /\ rnImpl = impl
    /\ rnRun = 1
    /\ rnPc = "start"
    /\ rnInputs = <<>>
    /\ rnResults = <<>>
    /\ rnSeen = {}
    /\ rnLast = 0
    /\ rnMetrics = [r \in {1, 2} |-> NoMetrics]

RunsInit == \E c \in RunConfigs : \E impl \in RunImpls : RunsFields(c, impl)

\* Lines 206-219 up to the submission of the cases.
RunExecute ==
    /\ rnPc = "start"
    /\ \E s \in shadow_samples(rnConfig) :
          /\ rnInputs' = s
          /\ rnResults' = [k \in 1 .. Len(s) |-> NoneResult]
    /\ rnSeen' = {}
    /\ rnLast' = 0
    /\ rnPc' = "executing"
    /\ UNCHANGED otherThanRuns
    /\ UNCHANGED <<rnConfig, rnImpl, rnRun, rnMetrics>>

\* One case of the running execute completes and the loop of execute sees
\* it.  Serially the cases complete in order; in a pool, in any order.
\* The result is stored at the case's position, except in the fallback of
\* the process pool, whose loop only keeps the position (local.py lines
\* 139-141).
RunCaseCompletes(k) ==
    /\ rnPc = "executing"
    /\ k \in (1 .. Len(rnInputs)) \ rnSeen
    /\ store_mode(rnConfig) = "serial" => \A j \in 1 .. (k - 1) : j \in rnSeen
    /\ rnSeen' = rnSeen \cup {k}
    /\ rnLast' = k
    /\ rnResults' = IF store_mode(rnConfig) = "fallback" THEN rnResults
                    ELSE [rnResults EXCEPT
                             ![k] = rnImpl[InputVal(rnInputs[k])]]
    /\ UNCHANGED otherThanRuns
    /\ UNCHANGED <<rnConfig, rnImpl, rnRun, rnPc, rnInputs, rnMetrics>>

\* local.py lines 142-145: execute returns; the fallback stores the result
\* of the position its loop saw last.
RunExecuteReturns ==
    /\ rnPc = "executing"
    /\ rnSeen = 1 .. Len(rnInputs)
    /\ rnResults' = IF store_mode(rnConfig) = "fallback" /\ rnLast > 0
                    THEN [rnResults EXCEPT
                             ![rnLast] = rnImpl[InputVal(rnInputs[rnLast])]]
                    ELSE rnResults
    /\ rnPc' = "evaluate"
    /\ UNCHANGED otherThanRuns
    /\ UNCHANGED <<rnConfig, rnImpl, rnRun, rnInputs, rnSeen, rnLast, rnMetrics>>

\* Lines 235-262 and 536-706: the results are evaluated against the
\* inputs run_eval generated; the call is over.
RunEvaluate ==
    /\ rnPc = "evaluate"
    /\ rnMetrics' = [rnMetrics EXCEPT ![rnRun] =
          evaluate_results(rnImpl, rnResults, 1,
                           [NoMetrics EXCEPT !.total = Len(rnResults)])]
    /\ IF rnRun = 1
       THEN rnRun' = 2 /\ rnPc' = "start"
       ELSE rnRun' = rnRun /\ rnPc' = "done"
    /\ UNCHANGED otherThanRuns
    /\ UNCHANGED <<rnConfig, rnImpl, rnInputs, rnResults, rnSeen, rnLast>>

RunsNext ==
    \/ RunExecute
    \/ \E k \in 1 .. NumCases : RunCaseCompletes(k)
    \/ RunExecuteReturns
    \/ RunEvaluate


(***************************************************************************)
(* should_continue_adaptive (adaptive.py lines 37-149): one call.  Sample  *)
(* sizes are small integers; power is in hundredths; what estimate_power   *)
(* yields for the interim rates (its power and its recommended size) is   *)
(* an input of the call.                                                   *)
(***************************************************************************)
MaxSampleN == 4            \* sizes range over 0 .. MaxSampleN
MinObservations == 10      \* adaptive.py line 102
PowerThreshold == 95       \* AdaptiveConfig.power_threshold, in hundredths

Sizes == 0 .. MaxSampleN

AdaptiveConfigs ==
    [enabled : BOOLEAN, min_sample_size : {1, 2},
     max_sample_size : {None, 2, 3}, early_stop_enabled : BOOLEAN]

PowerEstimates ==
    [power : {PowerThreshold - 1, PowerThreshold, PowerThreshold + 1},
     recommended_n : {None} \cup Sizes]

AdaptiveArgs ==
    [config : AdaptiveConfigs, current_n : Sizes,
     baseline_total : {MinObservations - 1, MinObservations},
     candidate_total : {MinObservations - 1, MinObservations},
     estimate : PowerEstimates]

AdaptiveDecision(continue_sampling, recommended_n, current_power, reason) ==
    [continue_sampling |-> continue_sampling, recommended_n |-> recommended_n,
     current_power |-> current_power, reason |-> reason]

\* Lines 132-134 without the cap.
cap_recommendation_Uncapped(recommended_n, max_sample_size) == recommended_n

\* Lines 132-134: the recommendation is capped at max_sample_size when one
\* is set.
cap_recommendation(recommended_n, max_sample_size) ==
    IF max_sample_size # None THEN Min(recommended_n, max_sample_size)
    ELSE recommended_n

\* Lines 61-149.  est is the pair estimate_power returns at line 110.
should_continue_adaptive(baseline_total, candidate_total, current_n, cfg, est) ==
    IF ~cfg.enabled
    THEN AdaptiveDecision(TRUE, None, 0, <<"adaptive_testing_disabled">>)
    ELSE IF current_n < cfg.min_sample_size
    THEN AdaptiveDecision(TRUE, None, 0,
             <<"below_minimum_sample_size", cfg.min_sample_size>>)
    ELSE IF cfg.max_sample_size # None /\ current_n >= cfg.max_sample_size
    THEN AdaptiveDecision(FALSE, cfg.max_sample_size, 0,
             <<"reached_maximum_sample_size", cfg.max_sample_size>>)
    ELSE IF baseline_total < MinObservations
            \/ candidate_total < MinObservations
    THEN AdaptiveDecision(TRUE, None, 0, <<"insufficient_data_for_analysis">>)
    ELSE IF cfg.early_stop_enabled /\ est.power >= PowerThreshold
    THEN AdaptiveDecision(FALSE, current_n, est.power,
             <<"sufficient_power", est.power>>)
    ELSE IF est.recommended_n # None /\ est.recommended_n > current_n
    THEN LET final_recommended ==
                 cap_recommendation(est.recommended_n, cfg.max_sample_size)
         IN AdaptiveDecision(TRUE, final_recommended, est.power,
                <<"insufficient_power", est.power, "recommend",
                  final_recommended>>)
    ELSE AdaptiveDecision(TRUE, None, est.power,
             <<"continuing_power", est.power>>)

NoAdaptiveDecision == AdaptiveDecision(TRUE, None, 0, <<>>)

DecisionFields(a) ==
    /\ adArgs = a
    /\ adPc = "call"
    /\ adDecision = NoAdaptiveDecision

DecisionInit == \E a \in AdaptiveArgs : DecisionFields(a)

\* The call.
Decide ==
    /\ adPc = "call"
    /\ adDecision' = should_continue_adaptive(
                         adArgs.baseline_total, adArgs.candidate_total,
                         adArgs.current_n, adArgs.config, adArgs.estimate)
    /\ adPc' = "returned"
    /\ UNCHANGED otherThanDecision
    /\ UNCHANGED adArgs

DecisionNext == Decide


(***************************************************************************)
(* execute_adaptively (harness/adaptive_execution.py lines 16-206).  Every *)
(* dispatched chunk returns one result per input for each role, so both    *)
(* result lists have `processed` entries.  At a check each role's interim  *)
(* total is `processed`; what estimate_power yields is chosen at the      *)
(* check.                                                                  *)
(***************************************************************************)
MaxRecommended == 13       \* recommended sizes range up to MaxRecommended

AdaptiveRuns ==
    [config : [enabled : BOOLEAN, min_sample_size : {5, 10},
               check_interval : {5, 10}, max_sample_size : {None, 12},
               early_stop_enabled : BOOLEAN],
     initial_n : {10, 11, 13}]

RunEstimates ==
    [power : {PowerThreshold - 1, PowerThreshold},
     recommended_n : {None} \cup (11 .. MaxRecommended)]

\* Line 196: min(recommended_n, max_sample_size or len(test_inputs)).
grown_size(recommended_n, max_sample_size, planned) ==
    Min(recommended_n,
        IF max_sample_size = None \/ max_sample_size = 0 THEN planned
        ELSE max_sample_size)

AdaptiveFields(a) ==
    /\ exArgs = a
    /\ exPc = "start"
    /\ exPlanned = a.initial_n
    /\ processed = 0
    /\ next_check = 0
    /\ final_n = 0
    /\ early_stop = FALSE
    /\ exDecisions = <<>>
    /\ exGenerated = <<>>

AdaptiveInit == \E a \in AdaptiveRuns : AdaptiveFields(a)

\* Lines 65-99: without adaptive testing everything is executed at once;
\* with it the loop is set up.
AdaptiveStart ==
    /\ exPc = "start"
    /\ IF ~exArgs.config.enabled
       THEN /\ processed' = exPlanned
            /\ exPc' = "returned"
            /\ UNCHANGED <<next_check, final_n>>
       ELSE /\ next_check' = exArgs.config.min_sample_size
            /\ final_n' = exPlanned
            /\ exPc' = "chunk"
            /\ UNCHANGED processed
    /\ UNCHANGED otherThanAdaptive
    /\ UNCHANGED <<exArgs, exPlanned, early_stop, exDecisions, exGenerated>>

\* Lines 100-133: the loop test, and one chunk is executed.
AdaptiveChunk ==
    /\ exPc = "chunk"
    /\ processed < exPlanned
    /\ LET chunk_end == Min(processed + exArgs.config.check_interval, exPlanned)
       IN /\ processed' = chunk_end
          /\ exPc' = IF chunk_end >= next_check THEN "check" ELSE "chunk"
    /\ UNCHANGED otherThanAdaptive
    /\ UNCHANGED <<exArgs, exPlanned, next_check, final_n, early_stop,
                   exDecisions, exGenerated>>

\* Lines 135-203: the interim check.
AdaptiveCheck ==
    /\ exPc = "check"
    /\ \E est \in RunEstimates :
       LET cfg == exArgs.config
           decision == should_continue_adaptive(processed, processed,
                                                processed, cfg, est)
           grow == /\ decision.recommended_n # None
                   /\ decision.recommended_n > processed
           target == grown_size(decision.recommended_n, cfg.max_sample_size,
                                exPlanned)
       IN /\ exDecisions' = Append(exDecisions,
                                   [n |-> processed, decision |-> decision])
          /\ IF ~decision.continue_sampling
             THEN /\ early_stop' = TRUE
                  /\ final_n' = processed
                  /\ exPc' = "finish"
                  /\ UNCHANGED <<exPlanned, next_check, exGenerated>>
             ELSE /\ final_n' = IF grow THEN target ELSE final_n
                  /\ exPlanned' = IF grow /\ target > exPlanned THEN target
                                  ELSE exPlanned
                  /\ exGenerated' =
                        IF grow /\ target > exPlanned
                        THEN Append(exGenerated, target - exPlanned)
                        ELSE exGenerated
                  /\ next_check' = processed + cfg.check_interval
                  /\ exPc' = "chunk"
                  /\ UNCHANGED early_stop
    /\ UNCHANGED otherThanAdaptive
    /\ UNCHANGED <<exArgs, processed>>

\* Line 100 when the loop test fails.
AdaptiveLoopEnd ==
    /\ exPc = "chunk"
    /\ processed >= exPlanned
    /\ exPc' = "finish"
    /\ UNCHANGED otherThanAdaptive
    /\ UNCHANGED <<exArgs, exPlanned, processed, next_check, final_n,
                   early_stop, exDecisions, exGenerated>>

\* Lines 205-206.
AdaptiveReturn ==
    /\ exPc = "finish"
    /\ exPc' = "returned"
    /\ UNCHANGED otherThanAdaptive
    /\ UNCHANGED <<exArgs, exPlanned, processed, next_check, final_n,
                   early_stop, exDecisions, exGenerated>>

AdaptiveNext ==
    \/ AdaptiveStart
    \/ AdaptiveChunk
    \/ AdaptiveCheck
    \/ AdaptiveLoopEnd
    \/ AdaptiveReturn


(***************************************************************************)
(* OpenAIExecutor.execute and AnthropicExecutor.execute: the retry loop    *)
(* (openai.py lines 167-249, anthropic.py lines 167-233).  A provider API  *)
(* call returns, or raises an error that carries a status code or none.    *)
(* The base class's _should_retry says whether an error is retried; it may *)
(* or may not look at the attempt number.                                  *)
(***************************************************************************)
MaxRetries == 2            \* max_retries ranges over 0 .. MaxRetries

CallOutcomes == {"ok", "400", "401", "429", "500", "no_status"}

RetryableOutcomes == {"429", "500"}

RetryArgs ==
    [max_retries : 0 .. MaxRetries, valid : BOOLEAN,
     should_retry_counts_attempts : BOOLEAN]

\* range(self.max_retries + 1) with one more attempt.
attempts_allowed_OneMore(max_retries) == max_retries + 2

\* openai.py line 169, anthropic.py line 167: range(self.max_retries + 1).
attempts_allowed(max_retries) == max_retries + 1

\* LLMExecutor._should_retry(exc, attempt).
should_retry(a, outcome, att) ==
    /\ outcome \in RetryableOutcomes
    /\ a.should_retry_counts_attempts => att < a.max_retries

\* openai.py lines 214-224, anthropic.py lines 199-209.
error_code_of(outcome) ==
    CASE outcome = "401" -> "authentication_error"
      [] outcome = "429" -> "rate_limit_error"
      [] outcome = "400" -> "invalid_request"
      [] outcome = "500" -> "api_server_error"
      [] OTHER -> "llm_api_error"

\* The payload with the retry metadata attached.
retry_payload(success, error_code, retries) ==
    [success |-> success, error_code |-> error_code, retries |-> retries]

NoPayload == retry_payload(FALSE, "unset", 0)

RetryFields(a) ==
    /\ rtArgs = a
    /\ rtPc = "start"
    /\ attempt = 0
    /\ rtOutcomes = <<>>
    /\ rtResult = NoPayload

RetryInit == \E a \in RetryArgs : RetryFields(a)

\* openai.py lines 88-165: arguments that do not validate are answered
\* without a call.
RetryValidate ==
    /\ rtPc = "start"
    /\ IF rtArgs.valid
       THEN rtPc' = "loop" /\ UNCHANGED rtResult
       ELSE /\ rtPc' = "returned"
            /\ rtResult' = retry_payload(FALSE, "invalid_input", 0)
    /\ UNCHANGED otherThanRetry
    /\ UNCHANGED <<rtArgs, attempt, rtOutcomes>>

\* openai.py lines 169-235: one pass of the loop: the API call, and what
\* follows its return or its exception.
RetryAttempt ==
    /\ rtPc = "loop"
    /\ attempt < attempts_allowed(rtArgs.max_retries)
    /\ \E outcome \in CallOutcomes :
          /\ rtOutcomes' = Append(rtOutcomes, outcome)
          /\ IF outcome = "ok"
             THEN /\ rtResult' = retry_payload(TRUE, "none", attempt)
                  /\ rtPc' = "returned"
             ELSE IF should_retry(rtArgs, outcome, attempt)
             THEN /\ rtPc' = "backoff"
                  /\ UNCHANGED rtResult
             ELSE /\ rtResult' = retry_payload(FALSE, error_code_of(outcome),
                                               attempt)
                  /\ rtPc' = "returned"
    /\ UNCHANGED otherThanRetry
    /\ UNCHANGED <<rtArgs, attempt>>

\* openai.py lines 209-210: the backoff sleep, then the next pass.
RetryBackoff ==
    /\ rtPc = "backoff"
    /\ attempt' = attempt + 1
    /\ rtPc' = "loop"
    /\ UNCHANGED otherThanRetry
    /\ UNCHANGED <<rtArgs, rtOutcomes, rtResult>>

\* openai.py lines 237-249: the loop ran out.
RetryExhausted ==
    /\ rtPc = "loop"
    /\ attempt >= attempts_allowed(rtArgs.max_retries)
    /\ rtResult' = retry_payload(FALSE, "llm_api_error", rtArgs.max_retries)
    /\ rtPc' = "returned"
    /\ UNCHANGED otherThanRetry
    /\ UNCHANGED <<rtArgs, attempt, rtOutcomes>>

RetryNext ==
    \/ RetryValidate
    \/ RetryAttempt
    \/ RetryBackoff
    \/ RetryExhausted


(***************************************************************************)
(* multiple_comparisons.py: holm_correction (lines 20-54) and              *)
(* benjamini_hochberg_correction (lines 108-150) applied to one list of    *)
(* p-values.  The code computes in binary floating point, rounding every   *)
(* product and quotient to nearest, ties to even.  The model keeps that    *)
(* arithmetic at a reduced width: a number is an integer m * 2^j with a    *)
(* mantissa m of MantissaBits bits.                                        *)
(***************************************************************************)
MantissaBits == 3          \* width of the mantissa
MaxHypotheses == 3         \* len(p_values) ranges over 0 .. MaxHypotheses

RECURSIVE Pow2(_)
Pow2(k) == IF k = 0 THEN 1 ELSE 2 * Pow2(k - 1)

Mantissas == Pow2(MantissaBits - 1) .. (Pow2(MantissaBits) - 1)
Exponents == 0 .. (MantissaBits + 3)
Floats == {m * Pow2(j) : m \in Mantissas, j \in Exponents}

mantissa(f) == CHOOSE m \in Mantissas : \E j \in Exponents : f = m * Pow2(j)

Abs(x) == IF x < 0 THEN 0 - x ELSE x

\* The floating-point number nearest to num / den, ties to the even
\* mantissa.
fl(num, den) ==
    CHOOSE f \in Floats : \A g \in Floats :
        \/ f = g
        \/ Abs(f * den - num) < Abs(g * den - num)
        \/ /\ Abs(f * den - num) = Abs(g * den - num)
           /\ mantissa(f) % 2 = 0

\* Line 48: alpha / (n - k + 1).
holm_threshold(alpha, n, k) == fl(alpha, n - k + 1)

\* Line 138: (k * alpha) / n, the product rounded before the division.
bh_threshold(alpha, n, k) == fl(fl(k * alpha, 1), n)

Alphas == {m * Pow2(3) : m \in Mantissas}

PValues(alpha) ==
    {holm_threshold(alpha, MaxHypotheses, k) : k \in 1 .. MaxHypotheses}
    \cup {bh_threshold(alpha, MaxHypotheses, k) : k \in 1 .. MaxHypotheses}
    \cup {2 * alpha}

CorrectionArgs ==
    UNION {[p_values : [1 .. n -> PValues(alpha)], alpha : {alpha}] :
              n \in 0 .. MaxHypotheses, alpha \in Alphas}

\* Lines 41-43 and 130-132: the indices ordered by p-value; list.sort is stable.
sorted_indices(p_values) ==
    LET n == Len(p_values)
    IN CHOOSE s \in [1 .. n -> 1 .. n] :
          /\ \A a, b \in 1 .. n : a # b => s[a] # s[b]
          /\ \A a, b \in 1 .. n : a < b =>
                \/ p_values[s[a]] < p_values[s[b]]
                \/ p_values[s[a]] = p_values[s[b]] /\ s[a] < s[b]

\* Lines 36-54.
holm_correction(p_values, alpha) ==
    LET n == Len(p_values)
        indexed == sorted_indices(p_values)
    IN [k \in 1 .. n |->
           [index |-> indexed[k] - 1,
            is_significant |->
                p_values[indexed[k]] <= holm_threshold(alpha, n, k)]]

\* Lines 134-140: the largest k with p[k] <= (k * alpha) / n, or 0.
bh_significant_count(p_values, alpha) ==
    LET n == Len(p_values)
        indexed == sorted_indices(p_values)
        hits == {k \in 1 .. n :
                    p_values[indexed[k]] <= bh_threshold(alpha, n, k)}
    IN IF hits = {} THEN 0 ELSE CHOOSE k \in hits : \A j \in hits : j <= k

\* Lines 125-150.
benjamini_hochberg_correction(p_values, alpha) ==
    LET n == Len(p_values)
        indexed == sorted_indices(p_values)
        significant_count == bh_significant_count(p_values, alpha)
    IN [k \in 1 .. n |->
           [index |-> indexed[k] - 1,
            is_significant |-> k <= significant_count]]

\* The number of hypotheses a result declares significant.
SignificantCount(corrected) ==
    Cardinality({k \in 1 .. Len(corrected) : corrected[k].is_significant})

CorrectionFields(a) ==
    /\ mcArgs = a
    /\ mcHolm = <<>>
    /\ mcBH = <<>>
    /\ mcDone = {}

CorrectionInit == \E a \in CorrectionArgs : CorrectionFields(a)

ApplyHolm ==
    /\ "holm" \notin mcDone
    /\ mcHolm' = holm_correction(mcArgs.p_values, mcArgs.alpha)
    /\ mcDone' = mcDone \cup {"holm"}
    /\ UNCHANGED otherThanCorrection
    /\ UNCHANGED <<mcArgs, mcBH>>

ApplyBH ==
    /\ "fdr" \notin mcDone
    /\ mcBH' = benjamini_hochberg_correction(mcArgs.p_values, mcArgs.alpha)
    /\ mcDone' = mcDone \cup {"fdr"}
    /\ UNCHANGED otherThanCorrection
    /\ UNCHANGED <<mcArgs, mcHolm>>

CorrectionNext ==
    \/ ApplyHolm
    \/ ApplyBH


(***************************************************************************)
(* The lease check of QueueDispatcher.execute (lines 203-254) on one task  *)
(* whose workers take it and are never heard of again.  The checks are     *)
(* lease_sweep, requeue_causes and requeue_task of the dispatch above; the *)
(* global timeout is left out so that the sweep can run many times.        *)
(***************************************************************************)
MaxRequeueAttempts == 2    \* max_requeue_attempts ranges over 0 .. this
MaxClock == 6              \* the clock runs over 0 .. MaxClock

RequeueConfigs ==
    [enable_requeue : {TRUE}, batch_size : {1},
     adaptive_batching : BOOLEAN, use_msgpack : {FALSE},
     compress : {TRUE}, adaptive_compress : {TRUE},
     msgpack_available : {TRUE},
     max_batch_size : {None}, initial_batch_size : {None},
     min_batch_size : {None},
     max_requeue_attempts : 0 .. MaxRequeueAttempts]

\* The locals after the one task, holding case 0, was published at time 0.
published_once(c) ==
    LET task == NewTask(c, 0, <<0>>, c.use_msgpack)
    IN [tasks |-> Put(EmptyMap, 0, task),
        deadlines |-> Put(EmptyMap, 0, LeaseSeconds),
        remaining |-> Put(EmptyMap, 0, {0}),
        pending |-> <<task>>,
        assignment |-> EmptyMap,
        batch |-> initial_batch_size(c),
        target |-> TargetInflight(initial_batch_size(c)),
        log |-> [i \in Cases |->
                    [count |-> 0, from |-> {}, stale_from |-> {},
                     indices |-> {}, causes |-> {}]]]

RequeueFields(c) ==
    /\ rqConfig = c
    /\ rqNow = 0
    /\ rqLocals = published_once(c)
    /\ rqHeartbeats = [w \in Workers |-> NoBeat]
    /\ rqLost = {}
    /\ rqTaken = 0

RequeueInit == \E c \in RequeueConfigs : RequeueFields(c)

\* Lines 205-254: one pass of the check; the heartbeat manager may report
\* workers with a stale heartbeat as lost.
RequeueCheck ==
    /\ \E newly_lost \in SUBSET StaleWorkers(rqNow, rqHeartbeats) :
          /\ rqLost' = rqLost \cup newly_lost
          /\ rqLocals' = lease_sweep(rqConfig, rqNow, rqLocals,
                                     SortedSeq(DOMAIN rqLocals.deadlines),
                                     rqHeartbeats, rqLost \cup newly_lost)
    /\ <<rqLost', rqLocals'>> # <<rqLost, rqLocals>>
    /\ UNCHANGED otherThanRequeue
    /\ UNCHANGED <<rqConfig, rqNow, rqHeartbeats, rqTaken>>

\* register_worker and consume_task: a worker takes the copy at the head
\* of the queue, and sends nothing afterwards.
RequeueConsume(w) ==
    /\ rqLocals.pending # <<>>
    /\ rqLocals' = [rqLocals EXCEPT
                       !.pending = Tail(@),
                       !.assignment =
                           Put(@, Head(rqLocals.pending).task_id, w)]
    /\ rqHeartbeats' = [rqHeartbeats EXCEPT ![w] = rqNow]
    /\ rqLost' = rqLost \ {w}
    /\ rqTaken' = rqTaken + 1
    /\ UNCHANGED otherThanRequeue
    /\ UNCHANGED <<rqConfig, rqNow>>

RequeueTick ==
    /\ rqNow < MaxClock
    /\ rqNow' = rqNow + 1
    /\ UNCHANGED otherThanRequeue
    /\ UNCHANGED <<rqConfig, rqLocals, rqHeartbeats, rqLost, rqTaken>>

RequeueNext ==
    \/ RequeueCheck
    \/ \E w \in Workers : RequeueConsume(w)
    \/ RequeueTick


(***************************************************************************)
(* The batch size of QueueDispatcher.execute under every configuration of  *)
(* batch_size, initial_batch_size, min_batch_size and max_batch_size:      *)
(* lines 107-133 set it, each result adjusts it (lines 294-313) and each   *)
(* requeue shrinks it (lines 249-254).  The results and the requeues are   *)
(* inputs here; the operators are those of the dispatch above.             *)
(***************************************************************************)
MaxBatchKey == 3           \* the batch-size keys range over 0 .. MaxBatchKey
MaxBatchSteps == 4         \* adjustments and requeues of one dispatch

BatchKeys == {None} \cup (0 .. MaxBatchKey)

BatchConfigs ==
    [enable_requeue : {TRUE}, batch_size : {1, 2},
     adaptive_batching : BOOLEAN, use_msgpack : {FALSE},
     compress : {TRUE}, adaptive_compress : {TRUE},
     msgpack_available : {TRUE},
     max_batch_size : BatchKeys, initial_batch_size : BatchKeys,
     min_batch_size : BatchKeys]

BatchDurations == {0, 10, 1000}
PendingCounts == {0, NumWorkers * 4 + 1}

BatchFields(c) ==
    /\ bsConfig = c
    /\ bsPc = "start"
    /\ bsAdapt = [since |-> 0, avg |-> NoAvg,
                  batch |-> initial_batch_size(c),
                  target |-> TargetInflight(initial_batch_size(c))]
    /\ bsSteps = 0

BatchInit == \E c \in BatchConfigs : BatchFields(c)

\* Line 189: the first chunks are published with the initial batch size.
BatchFirstPublish ==
    /\ bsPc = "start"
    /\ bsPc' = "loop"
    /\ UNCHANGED otherThanBatch
    /\ UNCHANGED <<bsConfig, bsAdapt, bsSteps>>

\* Lines 294-313: one result with its duration, at some queue depth.
BatchResult ==
    /\ bsPc = "loop"
    /\ bsSteps < MaxBatchSteps
    /\ \E duration \in BatchDurations : \E pending_tasks \in PendingCounts :
          bsAdapt' = adaptive_adjust(bsConfig, bsAdapt, duration, pending_tasks)
    /\ bsSteps' = bsSteps + 1
    /\ UNCHANGED otherThanBatch
    /\ UNCHANGED <<bsConfig, bsPc>>

\* Lines 249-254: one requeue.
BatchRequeue ==
    /\ bsPc = "loop"
    /\ bsSteps < MaxBatchSteps
    /\ LET batch == shrunk_batch(bsConfig, bsAdapt.batch)
       IN bsAdapt' = [bsAdapt EXCEPT
                         !.batch = batch,
                         !.target = IF batch # bsAdapt.batch
                                    THEN TargetInflight(batch) ELSE @]
    /\ bsSteps' = bsSteps + 1
    /\ UNCHANGED otherThanBatch
    /\ UNCHANGED <<bsConfig, bsPc>>

BatchNext ==
    \/ BatchFirstPublish
    \/ BatchResult
    \/ BatchRequeue


(***************************************************************************)
(* monitoring.py, SuccessRateMonitor.record (lines 119-124) called from    *)
(* several threads.  `bucket[key] += 1` is a read followed by a write, and *)
(* another thread can run between the two.                                 *)
(***************************************************************************)
MaxRecordCalls == 2        \* record calls per thread

MonitorThreads == {"t1", "t2"}
NoThread == "none"
Roles == {"baseline", "candidate"}

MonitorRecords == [role : Roles, success : BOOLEAN]

IdleThread ==
    [pc |-> "idle", record |-> [role |-> "baseline", success |-> FALSE],
     tmp |-> 0, calls |-> 0]

\* Line 120 without the lock.
lock_free_Unlocked(lock) == TRUE

\* Line 120: `with self._lock` enters only when no thread holds the lock.
lock_free(lock) == lock = NoThread

MonitorFields ==
    /\ mnLock = NoThread
    /\ mnCounts = [r \in Roles |-> [success |-> 0, total |-> 0]]
    /\ mnThread = [t \in MonitorThreads |-> IdleThread]
    /\ mnCalls = [r \in Roles |-> [success |-> 0, total |-> 0]]
    /\ mnOverlap = FALSE

MonitorInit == MonitorFields

\* A thread calls record(record).
RecordCall(t) ==
    /\ mnThread[t].pc = "idle"
    /\ mnThread[t].calls < MaxRecordCalls
    /\ \E record \in MonitorRecords :
          /\ mnThread' = [mnThread EXCEPT ![t] =
                [@ EXCEPT !.pc = "enter", !.record = record,
                          !.calls = @ + 1]]
          /\ mnCalls' = [mnCalls EXCEPT ![record.role] =
                [total |-> @.total + 1,
                 success |-> @.success + (IF record.success THEN 1 ELSE 0)]]
    /\ mnOverlap' = (mnOverlap \/ \E u \in MonitorThreads \ {t} :
                                      mnThread[u].pc # "idle")
    /\ UNCHANGED otherThanMonitor
    /\ UNCHANGED <<mnLock, mnCounts>>

\* Line 120: the lock is taken.
RecordEnter(t) ==
    /\ mnThread[t].pc = "enter"
    /\ lock_free(mnLock)
    /\ mnLock' = t
    /\ mnThread' = [mnThread EXCEPT ![t].pc = "load_total"]
    /\ UNCHANGED otherThanMonitor
    /\ UNCHANGED <<mnCounts, mnCalls, mnOverlap>>

\* Lines 121-122: bucket["total"] is read.
RecordLoadTotal(t) ==
    /\ mnThread[t].pc = "load_total"
    /\ mnThread' = [mnThread EXCEPT
                       ![t].pc = "store_total",
                       ![t].tmp = mnCounts[mnThread[t].record.role].total]
    /\ UNCHANGED otherThanMonitor
    /\ UNCHANGED <<mnLock, mnCounts, mnCalls, mnOverlap>>

\* Lines 122-123: bucket["total"] is written; record.success is tested.
RecordStoreTotal(t) ==
    /\ mnThread[t].pc = "store_total"
    /\ mnCounts' = [mnCounts EXCEPT
                       ![mnThread[t].record.role].total = mnThread[t].tmp + 1]
    /\ mnThread' = [mnThread EXCEPT
                       ![t].pc = IF mnThread[t].record.success
                                 THEN "load_success" ELSE "exit"]
    /\ UNCHANGED otherThanMonitor
    /\ UNCHANGED <<mnLock, mnCalls, mnOverlap>>

\* Line 124: bucket["success"] is read.
RecordLoadSuccess(t) ==
    /\ mnThread[t].pc = "load_success"
    /\ mnThread' = [mnThread EXCEPT
                       ![t].pc = "store_success",
                       ![t].tmp = mnCounts[mnThread[t].record.role].success]
    /\ UNCHANGED otherThanMonitor
    /\ UNCHANGED <<mnLock, mnCounts, mnCalls, mnOverlap>>

\* Line 124: bucket["success"] is written.
RecordStoreSuccess(t) ==
    /\ mnThread[t].pc = "store_success"
    /\ mnCounts' = [mnCounts EXCEPT
                       ![mnThread[t].record.role].success = mnThread[t].tmp + 1]
    /\ mnThread' = [mnThread EXCEPT ![t].pc = "exit"]
    /\ UNCHANGED otherThanMonitor
    /\ UNCHANGED <<mnLock, mnCalls, mnOverlap>>

\* The `with` block is left: the lock is released and record returns.
RecordExit(t) ==
    /\ mnThread[t].pc = "exit"
    /\ mnLock' = IF mnLock = t THEN NoThread ELSE mnLock
    /\ mnThread' = [mnThread EXCEPT ![t].pc = "idle"]
    /\ UNCHANGED otherThanMonitor
    /\ UNCHANGED <<mnCounts, mnCalls, mnOverlap>>

MonitorNext ==
    \/ \E t \in MonitorThreads : RecordCall(t)
    \/ \E t \in MonitorThreads : RecordEnter(t)
    \/ \E t \in MonitorThreads : RecordLoadTotal(t)
    \/ \E t \in MonitorThreads : RecordStoreTotal(t)
    \/ \E t \in MonitorThreads : RecordLoadSuccess(t)
    \/ \E t \in MonitorThreads : RecordStoreSuccess(t)
    \/ \E t \in MonitorThreads : RecordExit(t)


(***************************************************************************)
(* util.py: write_failed_artifacts (lines 209-241) and                     *)
(* _prune_failed_artifacts (lines 244-263) on one directory.  A file has a *)
(* name, made of the prefix and the time in seconds, and a modification    *)
(* time in clock ticks; `written` numbers the writes and is not part of    *)
(* the file.  Line 250 sorts by modification time: files with equal times  *)
(* come in the order of directory.glob, which is any order.                *)
(***************************************************************************)
MaxArtifactCalls == 3      \* calls of write_failed_artifacts
MaxArtifactLimit == 2      \* limit ranges over None, 0 .. MaxArtifactLimit
MaxArtifactClock == 4      \* the clock runs over 0 .. MaxArtifactClock
TicksPerSecond == 2        \* clock ticks in one second of the file name
TicksPerDay == 3           \* clock ticks in one day of ttl_days

RunIds == {"runA", "runB"}

ArtifactArgs ==
    [limit : {None} \cup (0 .. MaxArtifactLimit), ttl_days : {None, 0, 1}]

\* Lines 227-229: the file name.
artifact_name(run_id, clock) == <<run_id, clock \div TicksPerSecond>>

\* Line 238: write_text creates the file or replaces the one of that name.
write_text(dir, name, clock, written) ==
    {f \in dir : f.name # name}
    \cup {[name |-> name, mtime |-> clock, written |-> written]}

\* Lines 252-258: the files that outlive the time to live.
ttl_kept(files, ttl_days, clock) ==
    IF ttl_days # None /\ ttl_days >= 0
    THEN {f \in files : ~(f.mtime < clock - ttl_days * TicksPerDay)}
    ELSE files

\* Line 260.
limit_applies(limit, files) ==
    limit # None /\ limit > 0 /\ Cardinality(files) > limit

\* Lines 250, 260-262: the sets files[:limit] can be, for the orders that
\* sorting by modification time, newest first, can give.
limit_kept(files, limit) ==
    IF limit_applies(limit, files)
    THEN {K \in SUBSET files :
             /\ Cardinality(K) = limit
             /\ \A f \in K : \A g \in files \ K : f.mtime >= g.mtime}
    ELSE {files}

\* Lines 244-263: the directories pruning can leave.
prune_failed_artifacts(dir, limit, ttl_days, clock) ==
    limit_kept(ttl_kept(dir, ttl_days, clock), limit)

ArtifactFields(a) ==
    /\ faArgs = a
    /\ faClock = 0
    /\ faDir = {}
    /\ faDeleted = {}
    /\ faCalls = 0

ArtifactInit == \E a \in ArtifactArgs : ArtifactFields(a)

\* Lines 209-241: one call.
WriteFailedArtifacts ==
    /\ faCalls < MaxArtifactCalls
    /\ \E run_id \in RunIds :
       LET target == artifact_name(run_id, faClock)
           written == write_text(faDir, target, faClock, faCalls + 1)
       IN \E kept \in prune_failed_artifacts(written, faArgs.limit,
                                             faArgs.ttl_days, faClock) :
             /\ faDir' = kept
             /\ faDeleted' = faDeleted
                             \cup {f.written : f \in written \ kept}
    /\ faCalls' = faCalls + 1
    /\ UNCHANGED otherThanArtifact
    /\ UNCHANGED <<faArgs, faClock>>

\* Time passes between two calls.
ArtifactTick ==
    /\ faClock < MaxArtifactClock
    /\ faClock' = faClock + 1
    /\ UNCHANGED otherThanArtifact
    /\ UNCHANGED <<faArgs, faDir, faDeleted, faCalls>>

ArtifactNext ==
    \/ WriteFailedArtifacts
    \/ ArtifactTick


(***************************************************************************)
(* Specifications: one per component, the others at rest.                  *)
(***************************************************************************)
QueueAtRest == QueueFields(CHOOSE c \in QueueConfigs : TRUE)
DispatchAtRest == DispatchFields(CHOOSE c \in LocalConfigs : TRUE, {})
SandboxAtRest == SandboxFields(CHOOSE a \in SandboxArgs : TRUE)
EvalAtRest == EvalFields(CHOOSE e \in EvalInputs : TRUE)
GateAtRest == GateFields(CHOOSE g \in GateInputs : TRUE)
RunsAtRest == RunsFields(CHOOSE c \in RunConfigs : TRUE, CHOOSE f \in RunImpls : TRUE)
DecisionAtRest == DecisionFields(CHOOSE a \in AdaptiveArgs : TRUE)
AdaptiveAtRest == AdaptiveFields(CHOOSE a \in AdaptiveRuns : TRUE)
RetryAtRest == RetryFields(CHOOSE a \in RetryArgs : TRUE)
CorrectionAtRest == CorrectionFields(CHOOSE a \in CorrectionArgs : TRUE)
RequeueAtRest == RequeueFields(CHOOSE c \in RequeueConfigs : TRUE)
BatchAtRest == BatchFields(CHOOSE c \in BatchConfigs : TRUE)
MonitorAtRest == MonitorFields
ArtifactAtRest == ArtifactFields(CHOOSE a \in ArtifactArgs : TRUE)

InitQueue == QueueInit /\ DispatchAtRest /\ SandboxAtRest /\ EvalAtRest
    /\ GateAtRest /\ RunsAtRest /\ DecisionAtRest /\ AdaptiveAtRest
    /\ RetryAtRest /\ CorrectionAtRest /\ RequeueAtRest /\ BatchAtRest
    /\ MonitorAtRest /\ ArtifactAtRest

SpecQueue == InitQueue /\ [][QueueNext]_vars

InitDispatch == DispatchInit /\ QueueAtRest /\ SandboxAtRest /\ EvalAtRest
    /\ GateAtRest /\ RunsAtRest /\ DecisionAtRest /\ AdaptiveAtRest
    /\ RetryAtRest /\ CorrectionAtRest /\ RequeueAtRest /\ BatchAtRest
    /\ MonitorAtRest /\ ArtifactAtRest

SpecDispatch == InitDispatch /\ [][DispatchNext]_vars

InitSandbox == SandboxInit /\ QueueAtRest /\ DispatchAtRest /\ EvalAtRest
    /\ GateAtRest /\ RunsAtRest /\ DecisionAtRest /\ AdaptiveAtRest
    /\ RetryAtRest /\ CorrectionAtRest /\ RequeueAtRest /\ BatchAtRest
    /\ MonitorAtRest /\ ArtifactAtRest

SpecSandbox == InitSandbox /\ [][SandboxNext]_vars

InitEval == EvalInit /\ QueueAtRest /\ DispatchAtRest /\ SandboxAtRest
    /\ GateAtRest /\ RunsAtRest /\ DecisionAtRest /\ AdaptiveAtRest
    /\ RetryAtRest /\ CorrectionAtRest /\ RequeueAtRest /\ BatchAtRest
    /\ MonitorAtRest /\ ArtifactAtRest

SpecEval == InitEval /\ [][EvalNext]_vars

InitGate == GateInit /\ QueueAtRest /\ DispatchAtRest /\ SandboxAtRest
    /\ EvalAtRest /\ RunsAtRest /\ DecisionAtRest /\ AdaptiveAtRest
    /\ RetryAtRest /\ CorrectionAtRest /\ RequeueAtRest /\ BatchAtRest
    /\ MonitorAtRest /\ ArtifactAtRest

SpecGate == InitGate /\ [][GateNext]_vars

InitRuns == RunsInit /\ QueueAtRest /\ DispatchAtRest /\ SandboxAtRest
    /\ EvalAtRest /\ GateAtRest /\ DecisionAtRest /\ AdaptiveAtRest
    /\ RetryAtRest /\ CorrectionAtRest /\ RequeueAtRest /\ BatchAtRest
    /\ MonitorAtRest /\ ArtifactAtRest

SpecRuns == InitRuns /\ [][RunsNext]_vars

InitDecision == DecisionInit /\ QueueAtRest /\ DispatchAtRest
    /\ SandboxAtRest /\ EvalAtRest /\ GateAtRest /\ RunsAtRest
    /\ AdaptiveAtRest /\ RetryAtRest /\ CorrectionAtRest /\ RequeueAtRest
    /\ BatchAtRest /\ MonitorAtRest /\ ArtifactAtRest

SpecDecision == InitDecision /\ [][DecisionNext]_vars

InitAdaptive == AdaptiveInit /\ QueueAtRest /\ DispatchAtRest
    /\ SandboxAtRest /\ EvalAtRest /\ GateAtRest /\ RunsAtRest
    /\ DecisionAtRest /\ RetryAtRest /\ CorrectionAtRest /\ RequeueAtRest
    /\ BatchAtRest /\ MonitorAtRest /\ ArtifactAtRest

SpecAdaptive == InitAdaptive /\ [][AdaptiveNext]_vars

InitRetry == RetryInit /\ QueueAtRest /\ DispatchAtRest /\ SandboxAtRest
    /\ EvalAtRest /\ GateAtRest /\ RunsAtRest /\ DecisionAtRest
    /\ AdaptiveAtRest /\ CorrectionAtRest /\ RequeueAtRest /\ BatchAtRest
    /\ MonitorAtRest /\ ArtifactAtRest

SpecRetry == InitRetry /\ [][RetryNext]_vars

InitCorrection == CorrectionInit /\ QueueAtRest /\ DispatchAtRest
    /\ SandboxAtRest /\ EvalAtRest /\ GateAtRest /\ RunsAtRest
    /\ DecisionAtRest /\ AdaptiveAtRest /\ RetryAtRest /\ RequeueAtRest
    /\ BatchAtRest /\ MonitorAtRest /\ ArtifactAtRest

SpecCorrection == InitCorrection /\ [][CorrectionNext]_vars

InitRequeue == RequeueInit /\ QueueAtRest /\ DispatchAtRest /\ SandboxAtRest
    /\ EvalAtRest /\ GateAtRest /\ RunsAtRest /\ DecisionAtRest
    /\ AdaptiveAtRest /\ RetryAtRest /\ CorrectionAtRest /\ BatchAtRest
    /\ MonitorAtRest /\ ArtifactAtRest

SpecRequeue == InitRequeue /\ [][RequeueNext]_vars

InitBatch == BatchInit /\ QueueAtRest /\ DispatchAtRest /\ SandboxAtRest
    /\ EvalAtRest /\ GateAtRest /\ RunsAtRest /\ DecisionAtRest
    /\ AdaptiveAtRest /\ RetryAtRest /\ CorrectionAtRest /\ RequeueAtRest
    /\ MonitorAtRest /\ ArtifactAtRest

SpecBatch == InitBatch /\ [][BatchNext]_vars

InitMonitor == MonitorInit /\ QueueAtRest /\ DispatchAtRest /\ SandboxAtRest
    /\ EvalAtRest /\ GateAtRest /\ RunsAtRest /\ DecisionAtRest
    /\ AdaptiveAtRest /\ RetryAtRest /\ CorrectionAtRest /\ RequeueAtRest
    /\ BatchAtRest /\ ArtifactAtRest

SpecMonitor == InitMonitor /\ [][MonitorNext]_vars

InitArtifact == ArtifactInit /\ QueueAtRest /\ DispatchAtRest
    /\ SandboxAtRest /\ EvalAtRest /\ GateAtRest /\ RunsAtRest
    /\ DecisionAtRest /\ AdaptiveAtRest /\ RetryAtRest /\ CorrectionAtRest
    /\ RequeueAtRest /\ BatchAtRest /\ MonitorAtRest

SpecArtifact == InitArtifact /\ [][ArtifactNext]_vars



(***************************************************************************)
(* Claims about the queue dispatch.                                        *)
(***************************************************************************)
ResultOfInput(i) == results[i].filled /\ results[i].result = InputVal(i)

\* C1: whatever the interleaving of worker completions, the array execute
\* returns has, at every index i of the N inputs, the result produced for
\* the i-th input.
C1_ReturnedResultsAligned ==
    dispPc = "returned" =>
        /\ DOMAIN results = Cases
        /\ \A i \in Cases : ResultOfInput(i)

\* C24: whenever execute returns normally, no entry of the results array
\* is still the empty placeholder, also when a task was requeued and more
\* than one result message arrived for a case index.
C24_NoPlaceholderReturned ==
    dispPc = "returned" => \A i \in Cases : results[i] # EmptyResult

\* The task t decodes, as a worker decodes it, to the arguments of the
\* cases that are still unacknowledged for it, in ascending index order.
DecodesToOutstanding(t) ==
    LET d == decode_args(t.payload, t.compressed, t.use_msgpack,
                         config.msgpack_available)
        idxs == SortedSeq(remaining_cases[t.task_id])
    IN /\ t.case_indices = idxs
       /\ d.ok
       /\ Len(d.args) = Len(idxs)
       /\ \A j \in 1 .. Len(idxs) : d.args[j].val = test_inputs[idxs[j]].val

\* C25: every copy of a task that the lease check publishes carries the
\* task_id of a task with unacknowledged cases, and its payload, decoded
\* with the task's own compressed and use_msgpack flags, yields the
\* arguments of those cases in ascending index order.
C25_RequeuedTaskDecodes ==
    [][dispPc = "loop" =>
          \A k \in (Len(pending) + 1) .. Len(pending') :
              /\ pending'[k].task_id \in DOMAIN remaining_cases
              /\ DecodesToOutstanding(pending'[k])]_vars

\* C26: when a queue dispatch over the N cases returns, the monitors have
\* received exactly one record for every case index, also when a task was
\* requeued.
C26_OneRecordPerCase ==
    dispPc = "returned" => \A i \in Cases : monitorRecords[i] = 1


HasMessage(i) ==
    \E k \in 1 .. Len(resultQueue) : resultQueue[k].case_index = i

\* A task was requeued away from a worker whose heartbeat went stale, a
\* different worker has published the results of the requeued cases, and
\* a result of every case has reached the dispatcher or its result queue
\* before the global deadline.
C2_SecondWorkerPublished ==
    /\ Running
    /\ now < overall_deadline
    /\ \E t \in Cases : \E w1 \in requeueLog[t].stale_from :
         \E w2 \in Workers \ {w1} :
            \A i \in requeueLog[t].indices :
                [task_id |-> t, case_index |-> i, by |-> w2] \in published
    /\ \A i \in Cases : results[i].filled \/ HasMessage(i)

C3_Due(t) ==
    LET a == Assigned(assignment, t)
    IN /\ t \in DOMAIN remaining_cases
       /\ remaining_cases[t] # {}
       /\ \/ now > deadlines[t]
          \/ a # NoWorker /\ a \in lostWorkers'
          \/ a # NoWorker /\ heartbeats[a] # NoBeat
                          /\ now - heartbeats[a] > HeartbeatTimeout

C3_Requeued(t) ==
    /\ requeueLog'[t].count = requeueLog[t].count + 1
    /\ \E k \in (Len(pending) + 1) .. Len(pending') :
          /\ pending'[k].task_id = t
          /\ pending'[k].case_indices = SortedSeq(remaining_cases[t])
    /\ t \notin DOMAIN assignment'
    /\ deadlines'[t] = now + LeaseSeconds

LeaseCheckStep ==
    dispPc = "loop" /\ dispPc' \in {"poll", "raised"} /\ config.enable_requeue

CaseResult(i) ==
    delegate_run_case(ldConfig, ldFaulty, i, test_inputs[i]).value

\* C5: with more than one worker, whatever the order in which the cases
\* complete, the array LocalDispatcher.execute returns holds at each index
\* the result of the case with that index.
C5_LocalResultsAligned ==
    (ldPc = "returned" /\ effective_workers(ldConfig) > 1) =>
        \A i \in Cases : ldResults[i] = CaseResult(i)

\* C6: a pickling error of the process pool is not raised to the caller:
\* execute falls back to a thread pool, and the array it then returns holds
\* the result of every case at the case's index.
C6_FallbackKeepsEveryResult ==
    /\ ldPc = "raised" =>
          \E i \in Cases :
             delegate_run_case(ldConfig, ldFaulty, i, test_inputs[i]).raised
    /\ (ldFellBack /\ ldPc = "returned") =>
          \A i \in Cases : ldResults[i].filled /\ ldResults[i] = CaseResult(i)

\* C9: in safe mode no exception raised by a case leaves execute, and the
\* result returned for a case that raised is a failure marked
\* shadow_suppressed.
C9_SafeModeSwallows ==
    ldConfig.shadow = "safe" =>
        /\ ldPc # "raised"
        /\ ldPc = "returned" =>
              \A i \in ldFaulty : /\ ldResults[i].shadow_suppressed
                                  /\ ~ldResults[i].success


(***************************************************************************)
(* Claims about the local sandbox.                                         *)
(***************************************************************************)
FailureCodes ==
    {"SANDBOX_TIMEOUT", "SANDBOX_EXIT_CODE", "SANDBOX_PARSE_ERROR",
     "SANDBOX_UNHANDLED_EXCEPTION"}

\* C7: no call of the local sandbox ends by raising; it returns an
\* envelope, and the envelope says success only for a child that was
\* started, returned from solve and exited with code 0: every failure of
\* the execution comes back as an envelope with success = false and an
\* error code.
C7_FailuresBecomeEnvelopes ==
    /\ sbPc # "raised"
    /\ sbPc = "returned" =>
          IF sbResult.success
          THEN /\ sbArgs.kind = "returns"
               /\ sbArgs.popen_error = "none"
               /\ child.state = "reaped"
               /\ child.returncode = 0
          ELSE sbResult.error_code \in FailureCodes

C7_Witness ==
    /\ sbPc = "returned"
    /\ sbArgs.kind = "missing_entry"
    /\ child.state = "reaped"
    /\ child.returncode = 0
    /\ ~sbResult.success
    /\ sbResult.error_code = "SANDBOX_PARSE_ERROR"

\* C8: when timeout_s has elapsed and the child is still running, the next
\* thing the sandbox does is give up waiting and kill it; after the kill
\* the child is not running; the call then returns, without raising, the
\* failure envelope tagged SANDBOX_TIMEOUT, and the child has been reaped
\* by then.
C8_TimeoutKillsChild ==
    /\ [][(sbPc = "communicate" /\ child.state = "running"
           /\ sbClock >= sbDeadline /\ sbPc' # sbPc) => sbPc' = "kill"]_vars
    /\ [](sbPc = "wait" => child.state # "running")
    /\ [][(sbPc = "wait" /\ sbPc' # sbPc) =>
            /\ sbPc' = "returned"
            /\ ~sbResult'.success
            /\ sbResult'.error_code = "SANDBOX_TIMEOUT"]_vars
    /\ []((sbPc = "returned" /\ sbResult.error_code = "SANDBOX_TIMEOUT") =>
            child.state = "reaped")

C8_Witness ==
    /\ sbPc = "returned"
    /\ sbArgs.kind = "hangs"
    /\ sbClock >= sbArgs.timeout_s
    /\ sbResult.error_code = "SANDBOX_TIMEOUT"
    /\ ~sbResult.success
    /\ child.state = "reaped"
    /\ child.returncode = SigKill


(***************************************************************************)
(* Claims about the evaluation of results.                                 *)
(***************************************************************************)
IsPrefix(s, t) ==
    Len(s) <= Len(t) /\ \A k \in 1 .. Len(s) : s[k] = t[k]

\* C10: for every case the relations are transformed in declared order
\* (relation 0, then 1, ...), a relation is re-run only after its
\* transform, nothing is transformed or re-run after the first relation
\* that fails, and a case passes only when every relation was evaluated.
C10_RelationsInOrderUntilFirstFailure ==
    \A i \in Cases :
        LET done == evHistory.transformed[i]
            ff == evHistory.first_failure[i]
        IN /\ done = RangeSeq(0, Len(done))
           /\ IsPrefix(evHistory.consulted[i], done)
           /\ ff # NoRelation => Len(done) = ff + 1
           /\ (i < evIdx /\ pass_indicators[i + 1] = 1) =>
                 /\ Len(done) = NumRelations
                 /\ ff = NoRelation

C10_Witness ==
    /\ evPc = "returned"
    /\ \E i \in Cases :
          /\ evHistory.first_failure[i] = 0
          /\ evHistory.transformed[i] = <<0>>
          /\ pass_indicators[i + 1] = 0
    /\ \E j \in Cases :
          /\ Len(evHistory.transformed[j]) = NumRelations
          /\ pass_indicators[j + 1] = 1

\* The cases for which the loop over the relations was entered.
RelationCases == {i \in Cases : evHistory.transformed[i] # <<>>}

\* The cases that relation r's total counted.
CountedBy(r) ==
    {i \in Cases : \E k \in 1 .. Len(evHistory.transformed[i]) :
                      evHistory.transformed[i][k] = r}

\* C11: the total of a relation counts every case whose relations are
\* evaluated, also a case that an earlier relation has already marked
\* failed: at the return each relation's total is the number of those cases.
C11_TotalsCountDecidedCases ==
    evPc = "returned" =>
        \A r \in Relations :
            /\ relation_stats[r].total = Cardinality(CountedBy(r))
            /\ CountedBy(r) = RelationCases

\* The cases evaluated so far that were marked failed.
FailedCases == {i \in Cases : i < evIdx /\ pass_indicators[i + 1] = 0}

\* C12: however many cases fail, neither violation list of the role
\* (property violations, relation violations) ever holds more than
\* violation_cap entries.
C12_ViolationListsCapped ==
    /\ Len(prop_violations) <= evInput.violation_cap
    /\ Len(mr_violations) <= evInput.violation_cap

C12_Witness ==
    /\ evPc = "returned"
    /\ evInput.violation_cap >= 1
    /\ Cardinality(FailedCases) > evInput.violation_cap
    /\ Len(prop_violations) = evInput.violation_cap

\* The positions in the history of rerun calls made with cache key k.
RerunCalls(k) == {j \in 1 .. Len(evHistory.reruns) : evHistory.reruns[j] = k}

\* C13: within one evaluation rerun is called at most once for each key
\* (relation index, transformed arguments); the result of every call is
\* stored under its key and never replaced; and a relation whose key is
\* already stored makes no call.
C13_OneRerunPerKey ==
    /\ [](\A j \in 1 .. Len(evHistory.reruns) :
             /\ Cardinality(RerunCalls(evHistory.reruns[j])) = 1
             /\ evHistory.reruns[j] \in DOMAIN rerun_cache)
    /\ [](\A k \in DOMAIN rerun_cache : RerunCalls(k) # {})
    /\ [][/\ \A k \in DOMAIN rerun_cache :
                /\ k \in DOMAIN rerun_cache'
                /\ rerun_cache'[k] = rerun_cache[k]
          /\ Len(evHistory'.reruns) > Len(evHistory.reruns) =>
                evHistory'.reruns[Len(evHistory'.reruns)]
                    \notin DOMAIN rerun_cache]_vars

C13_Witness ==
    /\ evPc = "returned"
    /\ \A i \in Cases : evHistory.consulted[i] # <<>>
    /\ Cardinality({j \in 1 .. Len(evHistory.reruns) :
                       evHistory.reruns[j][1] = 0}) = 1


(***************************************************************************)
(* Claims about the end of run_eval.                                       *)
(***************************************************************************)
\* C14: when the gate raises, run_eval does not raise; it goes on to its
\* return, and the report it returns carries the decision adopt = false
\* with a reason that begins with gate_error.
C14_GateErrorBecomesDecision ==
    gtInput.gate.raised =>
        /\ gtPc # "raised"
        /\ gtPc # "returned" => ENABLED GateNext
        /\ gtPc \notin {"gate", "raised"} =>
              /\ ~gtResult.decision.adopt
              /\ Head(gtResult.decision.reason) = "gate_error"
        /\ gtPc = "returned" => gtResult.statistics

C14_Witness ==
    /\ gtPc = "returned"
    /\ gtInput.gate.raised
    /\ gtResult.decision =
          [adopt |-> FALSE, reason |-> <<"gate_error", ": ", "KeyError">>]
    /\ gtArtifact = "written"


(***************************************************************************)
(* Claims about two calls of run_eval.                                     *)
(***************************************************************************)
\* C15: two calls of run_eval with the same configuration and the same
\* deterministic implementation end alike, and when they return they yield
\* the same pass_rate (passes / total) and the same numbers of property and
\* relation violations, whatever order the dispatched cases completed in.
C15_TwoRunsAgree ==
    rnPc = "done" =>
        LET a == rnMetrics[1]
            b == rnMetrics[2]
        IN /\ a.raised = b.raised
           /\ ~a.raised =>
                 /\ a.passes * b.total = b.passes * a.total
                 /\ a.prop_violations = b.prop_violations
                 /\ a.mr_violations = b.mr_violations

\* C27: in the array a dispatcher returns to run_eval, the result at every
\* position was computed from the input run_eval holds at that position,
\* also for the shadow dispatcher sampling below a rate of one.
C27_ResultsAlignedWithHarnessInputs ==
    rnPc = "evaluate" =>
        \A k \in 1 .. Len(rnResults) :
            /\ rnInputs[k] = k - 1
            /\ rnResults[k] = rnImpl[InputVal(k - 1)]


(***************************************************************************)
(* Claims about adaptive testing.                                          *)
(***************************************************************************)
\* The rules of the decision in the order they are tried.
C16_Rule(k) ==
    LET cfg == adArgs.config
        n == adArgs.current_n
        est == adArgs.estimate
    IN CASE k = 1 -> ~cfg.enabled
         [] k = 2 -> n < cfg.min_sample_size
         [] k = 3 -> cfg.max_sample_size # None /\ n >= cfg.max_sample_size
         [] k = 4 -> \/ adArgs.baseline_total < MinObservations
                     \/ adArgs.candidate_total < MinObservations
         [] k = 5 -> cfg.early_stop_enabled /\ est.power >= PowerThreshold
         [] k = 6 -> est.recommended_n # None /\ est.recommended_n > n
         [] OTHER -> TRUE

\* Rule k is the first that applies.
C16_First(k) == C16_Rule(k) /\ \A j \in 1 .. (k - 1) : ~C16_Rule(j)

\* C16: the decision is that of the first rule that applies: disabled ->
\* continue, no recommendation; below the minimum -> continue; at or above
\* the maximum -> stop, recommendation = the maximum; a role with fewer
\* than 10 observations -> continue; power at or above the threshold with
\* early stopping -> stop; a larger recommended size -> continue with it,
\* capped at the maximum; otherwise continue with no recommendation.
C16_FirstApplicableRule ==
    adPc = "returned" =>
        LET d == adDecision
            cfg == adArgs.config
            rec == adArgs.estimate.recommended_n
        IN /\ C16_First(1) => d.continue_sampling /\ d.recommended_n = None
           /\ C16_First(2) => d.continue_sampling /\ d.recommended_n = None
           /\ C16_First(3) =>
                 ~d.continue_sampling /\ d.recommended_n = cfg.max_sample_size
           /\ C16_First(4) => d.continue_sampling /\ d.recommended_n = None
           /\ C16_First(5) => ~d.continue_sampling
           /\ C16_First(6) =>
                 /\ d.continue_sampling
                 /\ d.recommended_n =
                       IF cfg.max_sample_size # None /\ cfg.max_sample_size < rec
                       THEN cfg.max_sample_size ELSE rec
           /\ C16_First(7) => d.continue_sampling /\ d.recommended_n = None

C16_Witness ==
    /\ adPc = "returned"
    /\ C16_First(6)
    /\ adArgs.config.max_sample_size = 3
    /\ adArgs.estimate.recommended_n = 4
    /\ adDecision.continue_sampling
    /\ adDecision.recommended_n = 3

\* The decision of the check that has just been made.
LastDecision == exDecisions[Len(exDecisions)].decision

\* C17: when a check says to continue and recommends a size larger than the
\* number of inputs planned, exactly the cases missing to reach that size
\* are generated; and the loop ends before every planned case is executed
\* only on a decision to stop.
C17_GrowsToRecommendedSize ==
    /\ [][(exPc = "check" /\ exPc' = "chunk"
           /\ LastDecision'.recommended_n # None
           /\ LastDecision'.recommended_n > exPlanned) =>
             /\ exPlanned' = LastDecision'.recommended_n
             /\ exGenerated' =
                   Append(exGenerated,
                          LastDecision'.recommended_n - exPlanned)]_vars
    /\ []((exPc = "returned" /\ ~early_stop) => processed = exPlanned)

\* C28: with a maximum sample size M configured, execute_adaptively never
\* executes more than M cases per role.
C28_NeverExceedsMaximum ==
    (exArgs.config.enabled /\ exArgs.config.max_sample_size # None) =>
        processed <= exArgs.config.max_sample_size

\* C29: when execute_adaptively returns in adaptive mode, final_n is the
\* number of results returned for each role, and early_stop is true
\* exactly when the loop ended on a decision to stop.
C29_FinalSizeIsResultCount ==
    (exPc = "returned" /\ exArgs.config.enabled) =>
        /\ final_n = processed
        /\ early_stop <=> /\ exDecisions # <<>>
                          /\ ~LastDecision.continue_sampling


(***************************************************************************)
(* Claims about the LLM executors.                                         *)
(***************************************************************************)
\* C18: one execute call makes at most max_retries + 1 provider API calls;
\* every call but the last ended in a retryable failure; and a call that
\* ends in a failure that is not retryable is the last: execute has
\* returned a failure.
C18_RetriesBounded ==
    LET n == Len(rtOutcomes)
    IN /\ n <= rtArgs.max_retries + 1
       /\ \A k \in 1 .. (n - 1) : rtOutcomes[k] \in RetryableOutcomes
       /\ (n > 0 /\ rtOutcomes[n] \notin RetryableOutcomes \cup {"ok"}) =>
             /\ rtPc = "returned"
             /\ ~rtResult.success
       /\ rtPc = "returned" => rtResult.retries <= rtArgs.max_retries

C18_Witness ==
    /\ rtPc = "returned"
    /\ rtArgs.max_retries = 2
    /\ rtOutcomes = <<"429", "500", "400">>
    /\ ~rtResult.success
    /\ rtResult.error_code = "invalid_request"


(***************************************************************************)
(* Claims about the corrections for multiple comparisons.                  *)
(***************************************************************************)
\* C19: for every list of p-values and every alpha, Benjamini-Hochberg
\* declares at least as many hypotheses significant as Holm.
C19_BHAtLeastHolm ==
    mcDone = {"holm", "fdr"} =>
        SignificantCount(mcBH) >= SignificantCount(mcHolm)

\* C30: in ascending order of p-value the hypotheses holm_correction
\* declares significant form a prefix: after a hypothesis that is not
\* rejected, no hypothesis with a larger p-value is declared significant.
C30_HolmSignificantIsPrefix ==
    "holm" \in mcDone =>
        \A j, k \in 1 .. Len(mcHolm) :
            (j < k /\ mcHolm[k].is_significant) => mcHolm[j].is_significant


(***************************************************************************)
(* Claims about the limit on requeues.                                     *)
(***************************************************************************)
\* C20: with max_requeue_attempts = K configured, a task whose workers keep
\* going stale is requeued at most K times, so that at most K + 1 copies of
\* it are ever handed to workers.
C20_RequeuesBounded ==
    /\ rqLocals.log[0].count <= rqConfig.max_requeue_attempts
    /\ rqTaken <= rqConfig.max_requeue_attempts + 1


(***************************************************************************)
(* Claims about the batch size.                                            *)
(***************************************************************************)
\* C21: from the first published chunk on, after any adjustments and
\* requeues, the current batch size lies within the configured
\* [min_batch_size, max_batch_size].
C21_BatchSizeWithinLimits ==
    bsPc = "loop" =>
        /\ min_batch_size(bsConfig) <= bsAdapt.batch
        /\ bsAdapt.batch <= max_batch_size(bsConfig)


(***************************************************************************)
(* Claims about the monitors.                                              *)
(***************************************************************************)
\* C22: whenever no record call is in progress, whatever the interleaving
\* of the calls so far, SuccessRateMonitor's total for each role is the
\* number of record calls made for the role and its success count is the
\* number of those calls with success set.
C22_RecordCountsEveryCall ==
    (\A t \in MonitorThreads : mnThread[t].pc = "idle") =>
        \A r \in Roles : mnCounts[r] = mnCalls[r]

C22_Witness ==
    /\ \A t \in MonitorThreads : mnThread[t].pc = "idle"
    /\ mnOverlap
    /\ mnCalls["candidate"].total = 2 * MaxRecordCalls
    /\ mnCalls["candidate"].success = 2
    /\ mnCounts["candidate"] = mnCalls["candidate"]


(***************************************************************************)
(* Claims about the failed-case artifacts.                                 *)
(***************************************************************************)
\* C23: after any sequence of write_failed_artifacts calls with retention
\* count L, the directory holds at most L files, and every file pruning
\* removed was written before every file that is kept.
C23_KeepsNewestWithinLimit ==
    (faArgs.limit # None /\ faCalls > 0) =>
        /\ Cardinality(faDir) <= faArgs.limit
        /\ \A f \in faDir : \A w \in faDeleted : w < f.written

=============================================================================
